---- MODULE Spec2Model ----
(***************************************************************************)
(* Model of the AI hint daemon (src/src/daemon.py).                        *)
(*                                                                         *)
(* Specifications over one set of variables:                               *)
(*   SpecViewer   HintViewer: technique detection and one presentation     *)
(*                (show) at a time, step by step, against the console      *)
(*                (emulator process, virtual terminal, framebuffer).       *)
(*   Spec         HintSystem: the request handlers, background hint tasks  *)
(*                and view handlers as interleaved threads (SpecFair: the  *)
(*                same with fair scheduling).                              *)
(*   SpecViews    on_view_hint alone, several view threads.                *)
(*   SpecSave     on_view_hint against the clock: the save state and the   *)
(*                fixed sleep that follows it.                             *)
(*   SpecHotkey   HotkeyListener: the evdev event loop and _check_combos.  *)
(*   SpecFallback HotkeyListener._listen_fallback: the polling loop.       *)
(*   SpecRL       RateLimiter: its three operations called one at a time   *)
(*                while the calendar day advances (SpecRLCap: with the     *)
(*                history at its cap).                                     *)
(*   SpecCallers  RateLimiter._reset_if_new_day, statement by statement,   *)
(*                with several threads inside.                             *)
(*   SpecPersist  RateLimiter.record_request with the increment and the    *)
(*                save as separate statements and saves that can fail.     *)
(*   SpecPixels   HintViewer._convert_to_rgb565 on small canvases.         *)
(*   SpecWait     HintViewer._wait_for_button_press against the clock.     *)
(* Each specification leaves the variables of the other components alone.  *)
(***************************************************************************)
EXTENDS Integers, Sequences, FiniteSets, TLC

\* ------------------------------------------------------------------------
\* Bounds of the model
\* ------------------------------------------------------------------------
MaxShows == 2
MaxDay == 2        \* calendar days the clock runs through
MaxLimit == 2      \* largest configured daily_limit
MaxCount == 3      \* record_request calls per day are cut off here
MaxHolds == 2      \* times a combo becomes held
MaxRequests == 2   \* request threads started
MaxViews == 1      \* view threads started
MaxPresses == 3    \* view combos pressed in quick succession
MaxPixels == 2     \* pixels of the canvas handed to _convert_to_rgb565
MaxCallers == 2    \* threads inside the RateLimiter at the same time
MaxLatency == 3    \* seconds the emulator may need to write a save state
MaxTouches == 3    \* sentinel files created for the polling listener
MaxTimeout == 3    \* largest timeout, in seconds, given to the button wait
MaxBatch == 2      \* events one device.read() returns at most

\* ------------------------------------------------------------------------
\* HintViewer and the console
\* ------------------------------------------------------------------------
VARIABLES
    PIL_AVAILABLE,        \* module global, set at import
    EVDEV_AVAILABLE,      \* module global, set at import
    fb_sysfs,             \* /sys/class/graphics/fb0/{virtual_size,bits_per_pixel} exist
    installed,            \* binaries that subprocess can run
    display_method,       \* HintViewer.display_method
    vpc,                  \* position inside HintViewer.show
    current_vt,           \* local of _show_direct_fb/_show_fbv; 0 is None
    display_vt,           \* local; 0 is None
    retroarch_suspended,  \* local
    fb_bpp,               \* local of _show_direct_fb; 0 before it is read
    active_vt,            \* the console's active virtual terminal
    emu_stopped,          \* the emulator process is SIGSTOPped
    emu_paused,           \* RetroArch's own pause toggle
    fb_written,           \* the hint image is in /dev/fb0
    stops_sent,           \* pkill -STOP runs of the current show call
    conts_sent,           \* pkill -CONT runs of the current show call
    fell_back_from,       \* step at which the technique delegated to the fallback
    wait_result,          \* outcome of the button wait of the current call
    show_result,          \* value HintViewer.show returned
    shows                 \* show calls made so far

vvars == << PIL_AVAILABLE, EVDEV_AVAILABLE, fb_sysfs, installed, display_method,
            vpc, current_vt, display_vt, retroarch_suspended, fb_bpp,
            active_vt, emu_stopped, emu_paused, fb_written,
            stops_sent, conts_sent, fell_back_from, wait_result, show_result,
            shows >>

\* ------------------------------------------------------------------------
\* RateLimiter and the calendar
\* ------------------------------------------------------------------------
VARIABLES
    today,        \* _get_today(): the calendar day, 1, 2, ...
    daily_limit,  \* RateLimiter.daily_limit
    usage_data,   \* RateLimiter.usage_data: [date, count, history]; date 0 is ""
    usage_file,   \* contents of usage_counter.json; AbsentFile before the first save
    rl_last,      \* the last RateLimiter call: what it was given and returned
    records_today,\* record_request calls since the last rollover
    zero_start    \* the current day's count started at 0

rvars == << today, daily_limit, usage_data, usage_file, rl_last, records_today,
            zero_start >>

\* ------------------------------------------------------------------------
\* HotkeyListener and the controller
\* ------------------------------------------------------------------------
VARIABLES
    request_combo,    \* set(config["hotkey_request"])
    view_combo,       \* set(config["hotkey_view"])
    pressed_keys,     \* HotkeyListener.pressed_keys
    held,             \* buttons physically held on the controller
    hpc,              \* listener position: reading, or about to start a thread
    dispatched,       \* threads started per action
    times_held,       \* times each combo became simultaneously held
    pressed_since     \* per action: buttons pressed since its last dispatch

hvars == << request_combo, view_combo, pressed_keys, held, hpc, dispatched,
            times_held, pressed_since >>

\* ------------------------------------------------------------------------
\* HintSystem and its threads
\* ------------------------------------------------------------------------
VARIABLES
    processing,        \* HintSystem.processing
    hint_ready,        \* HintSystem.hint_ready
    current_hint_path, \* HintSystem.current_hint_path; 0 is None
    hint_files,        \* request that wrote current-hint.txt / current-hint.png
    rpc,               \* per request thread: position in on_request_hint and
                       \* in the background task it spawns
    rloc,              \* per request thread: its locals and what it did
    usage_log,         \* per request thread: the usage records it logged
    vwpc,              \* per view thread: position in on_view_hint
    cmd_log,           \* per view thread: save-state / show / load-state issued
    requests,          \* request threads started so far
    views              \* view threads started so far

wvars == << processing, hint_ready, current_hint_path, hint_files, rpc, rloc,
            usage_log, vwpc, cmd_log, requests, views >>

\* ------------------------------------------------------------------------
\* HintViewer._convert_to_rgb565
\* ------------------------------------------------------------------------
VARIABLES
    canvas,      \* img.getdata(): the pixels, each << r, g, b >>
    raw_data,    \* raw: the bytes packed so far
    cpc          \* position inside _convert_to_rgb565

pvars == << canvas, raw_data, cpc >>

\* ------------------------------------------------------------------------
\* Threads inside RateLimiter methods
\* ------------------------------------------------------------------------
VARIABLES
    rl_pc,       \* per calling thread: position inside the method
    rl_op,       \* per calling thread: the method it called
    rl_today     \* per calling thread: _reset_if_new_day's local `today`

cvars == << rl_pc, rl_op, rl_today >>

\* ------------------------------------------------------------------------
\* The emulator's save state and the sleep of on_view_hint
\* ------------------------------------------------------------------------
VARIABLES
    save_left,   \* seconds the emulator still needs for the save it was sent
    sleep_left   \* per view thread: seconds left of its time.sleep

tvars == << save_left, sleep_left >>

\* ------------------------------------------------------------------------
\* HotkeyListener._listen_fallback and the sentinel files
\* ------------------------------------------------------------------------
VARIABLES
    triggers,    \* actions whose sentinel file (.request_hint, .view_hint) exists
    fpc,         \* position of the listener thread inside the polling loop
    invoked,     \* per action: calls of on_request / on_view made by the loop
    touches      \* sentinel files created so far

fvars == << triggers, fpc, invoked, touches >>

\* ------------------------------------------------------------------------
\* HintViewer._wait_for_button_press
\* ------------------------------------------------------------------------
VARIABLES
    bpc,         \* position inside _wait_for_button_press
    timeout,     \* its parameter, in seconds
    clock,       \* time.time() - start_time: seconds since the wait began
    elapsed,     \* local: the value computed at the top of the loop
    batch,       \* events of the current device.read() not yet looked at
    handled,     \* events the for loop has looked at
    caught,      \* an exception reached the handler of the function
    ret          \* the value returned

bvars == << bpc, timeout, clock, elapsed, batch, handled, caught, ret >>

vars == << vvars, rvars, hvars, wvars, pvars, cvars, tvars, fvars, bvars >>

\* A step of one component leaves the other components alone.
ViewerOnly == UNCHANGED << rvars, hvars, wvars, pvars, cvars, tvars, fvars, bvars >>
RLOnly == UNCHANGED << vvars, hvars, wvars, pvars, cvars, tvars, fvars, bvars >>
HotkeyOnly == UNCHANGED << vvars, rvars, wvars, pvars, cvars, tvars, fvars, bvars >>
PixelsOnly == UNCHANGED << vvars, rvars, hvars, wvars, cvars, tvars, fvars, bvars >>
CallersOnly == UNCHANGED << vvars, hvars, wvars, pvars, tvars, fvars, bvars >>
FallbackOnly ==
    UNCHANGED << vvars, rvars, hvars, wvars, pvars, cvars, tvars, bvars >>
WaitOnly ==
    UNCHANGED << vvars, rvars, hvars, wvars, pvars, cvars, tvars, fvars >>

\* ------------------------------------------------------------------------
\* HintViewer
\* ------------------------------------------------------------------------

Viewers == {"mpv", "fbv", "fbi", "feh"}
SysTools == {"pkill", "chvt", "fgconsole"}
BppValues == {8, 16, 24, 32}
VTs == {1, 2, 3}

\* A detection that prefers fbv to mpv.
DetectDisplayMethod_FbvFirst(pil, sysfs, inst) ==
    IF pil /\ sysfs THEN "direct_fb"
    ELSE IF "fbv" \in inst THEN "fbv"
    ELSE IF "mpv" \in inst THEN "mpv"
    ELSE IF "fbi" \in inst THEN "fbi"
    ELSE IF "feh" \in inst THEN "feh"
    ELSE "retroarch_pause"

\* _detect_display_method: the first technique whose precondition holds.
DetectDisplayMethod(pil, sysfs, inst) ==
    IF pil /\ sysfs THEN "direct_fb"
    ELSE IF "mpv" \in inst THEN "mpv"
    ELSE IF "fbv" \in inst THEN "fbv"
    ELSE IF "fbi" \in inst THEN "fbi"
    ELSE IF "feh" \in inst THEN "feh"
    ELSE "retroarch_pause"

\* show(): the entry point of the selected technique.
ShowEntry(method) ==
    CASE method = "direct_fb" -> "dfb_read"
      [] method = "fbv" -> "fbv_getvt"
      [] method = "mpv" -> "mpv_stop"
      [] method = "fbi" -> "fbi_run"
      [] method = "feh" -> "feh_run"
      [] OTHER -> "pause"

\* display_vt = "1" if current_vt != "1" else "3"
DisplayVt(cur) == IF cur # 1 THEN 1 ELSE 3

\* A show call has not started yet.
ViewerStart ==
    /\ display_method = DetectDisplayMethod(PIL_AVAILABLE, fb_sysfs, installed)
    /\ vpc = "idle"
    /\ current_vt = 0
    /\ display_vt = 0
    /\ retroarch_suspended = FALSE
    /\ fb_bpp = 0
    /\ emu_stopped = FALSE
    /\ emu_paused = FALSE
    /\ fb_written = FALSE
    /\ stops_sent = 0
    /\ conts_sent = 0
    /\ fell_back_from = "none"
    /\ wait_result = "none"
    /\ show_result = "none"
    /\ shows = 0

\* State after HintViewer.__init__, on every console: which libraries were
\* imported, which binaries exist, which terminal is active.
InitViewer ==
    /\ PIL_AVAILABLE \in BOOLEAN
    /\ EVDEV_AVAILABLE \in BOOLEAN
    /\ fb_sysfs \in BOOLEAN
    /\ installed \in SUBSET (Viewers \cup SysTools)
    /\ active_vt \in {1, 2}
    /\ ViewerStart

\* The viewer on one console, for the specifications of the other components.
ParkedViewer ==
    /\ PIL_AVAILABLE = TRUE
    /\ EVDEV_AVAILABLE = TRUE
    /\ fb_sysfs = TRUE
    /\ installed = Viewers \cup SysTools
    /\ active_vt = 2
    /\ ViewerStart

\* The console and the configuration, which no step of show changes.
ViewerEnvUnchanged ==
    /\ UNCHANGED << PIL_AVAILABLE, EVDEV_AVAILABLE, fb_sysfs, installed, shows >>
    /\ ViewerOnly

\* HintViewer.show is called (by on_view_hint).
ShowCall ==
    /\ vpc \in {"idle", "returned"}
    /\ shows < MaxShows
    /\ shows' = shows + 1
    /\ vpc' = ShowEntry(display_method)
    /\ current_vt' = 0
    /\ display_vt' = 0
    /\ retroarch_suspended' = FALSE
    /\ fb_bpp' = 0
    /\ stops_sent' = 0
    /\ conts_sent' = 0
    /\ fell_back_from' = "none"
    /\ wait_result' = "none"
    /\ show_result' = "none"
    /\ fb_written' = FALSE
    /\ UNCHANGED << PIL_AVAILABLE, EVDEV_AVAILABLE, fb_sysfs, installed,
                    display_method, active_vt, emu_stopped, emu_paused >>
    /\ ViewerOnly

\* ------------------------------------------------------------------------
\* Sub-steps shared by the techniques
\* ------------------------------------------------------------------------

\* subprocess.run(["fgconsole"]): the active terminal, or None (0) when the
\* tool cannot be run.
Fgconsole == IF "fgconsole" \in installed THEN active_vt ELSE 0

\* subprocess.run(["chvt", vt]): the active terminal afterwards; a chvt that
\* cannot be run raises, and every caller swallows that.
Chvt(vt) == IF "chvt" \in installed THEN vt ELSE active_vt

\* subprocess.run(["pkill", "-STOP", "retroarch"]) inside try/except, followed
\* by retroarch_suspended = True when it did not raise.
SendStop ==
    IF "pkill" \in installed
    THEN /\ emu_stopped' = TRUE
         /\ stops_sent' = stops_sent + 1
         /\ retroarch_suspended' = TRUE
    ELSE UNCHANGED << emu_stopped, stops_sent, retroarch_suspended >>

\* subprocess.run(["pkill", "-CONT", "retroarch"]); a pkill that cannot be run
\* raises, which the cleanup handlers swallow.
SendCont ==
    IF "pkill" \in installed
    THEN /\ emu_stopped' = FALSE
         /\ conts_sent' = conts_sent + 1
    ELSE UNCHANGED << emu_stopped, conts_sent >>

\* A resume that is only sent when the terminal is back on the recorded one.
ContIfSuspended_OnlyAfterSwitch ==
    IF retroarch_suspended /\ active_vt = current_vt THEN SendCont
    ELSE UNCHANGED << emu_stopped, conts_sent >>

\* if retroarch_suspended: pkill -CONT
ContIfSuspended ==
    IF retroarch_suspended THEN SendCont
    ELSE UNCHANGED << emu_stopped, conts_sent >>

\* _wait_for_button_press(timeout=300): a press, the timeout, or an error
\* opening or reading the device (caught inside, returns False).
WaitOutcomes == {"press", "timeout", "error"}

\* ------------------------------------------------------------------------
\* _show_direct_fb
\* ------------------------------------------------------------------------

\* 1. read the framebuffer properties; on an exception fall back at once.
DfbRead ==
    /\ vpc = "dfb_read"
    /\ \/ /\ \E b \in BppValues : fb_bpp' = b
          /\ vpc' = "dfb_getvt"
          /\ UNCHANGED fell_back_from
       \/ /\ fell_back_from' = "read"
          /\ vpc' = "pause"
          /\ UNCHANGED fb_bpp
    /\ UNCHANGED << display_method, current_vt, display_vt, retroarch_suspended,
                    active_vt, emu_stopped, emu_paused, fb_written, stops_sent,
                    conts_sent, wait_result, show_result >>
    /\ ViewerEnvUnchanged

\* 2. record the current virtual terminal (best effort).
DfbGetVt ==
    /\ vpc = "dfb_getvt"
    /\ current_vt' = Fgconsole
    /\ vpc' = "dfb_stop"
    /\ UNCHANGED << display_method, display_vt, retroarch_suspended, fb_bpp,
                    active_vt, emu_stopped, emu_paused, fb_written, stops_sent,
                    conts_sent, fell_back_from, wait_result, show_result >>
    /\ ViewerEnvUnchanged

\* 3. stop the emulator; an exception is logged and the sequence goes on.
DfbStop ==
    /\ vpc = "dfb_stop"
    /\ SendStop
    /\ vpc' = "dfb_chvt"
    /\ UNCHANGED << display_method, current_vt, display_vt, fb_bpp,
                    active_vt, emu_paused, fb_written,
                    conts_sent, fell_back_from, wait_result, show_result >>
    /\ ViewerEnvUnchanged

\* 4. switch to a text terminal; an exception is logged and the sequence goes on.
DfbChvt ==
    /\ vpc = "dfb_chvt"
    /\ display_vt' = DisplayVt(current_vt)
    /\ active_vt' = Chvt(DisplayVt(current_vt))
    /\ vpc' = "dfb_prep"
    /\ UNCHANGED << display_method, current_vt, retroarch_suspended, fb_bpp,
                    emu_stopped, emu_paused, fb_written, stops_sent,
                    conts_sent, fell_back_from, wait_result, show_result >>
    /\ ViewerEnvUnchanged

\* What the three inner handlers of steps 5 and 6 do before
\* "return self._show_retroarch_pause(hint_path)": nothing.
DfbFailCleanup ==
    UNCHANGED << active_vt, emu_stopped, conts_sent >>

\* 5. decode, letterbox and encode the image; an unsupported depth or an
\*    exception returns the fallback technique's result.
DfbPrep ==
    /\ vpc = "dfb_prep"
    /\ \/ /\ fb_bpp \in {16, 24, 32}
          /\ vpc' = "dfb_write"
          /\ UNCHANGED << fell_back_from, active_vt, emu_stopped, conts_sent >>
       \/ /\ fb_bpp \notin {16, 24, 32}
          /\ fell_back_from' = "depth"
          /\ DfbFailCleanup
          /\ vpc' = "pause"
       \/ /\ fell_back_from' = "prep"
          /\ DfbFailCleanup
          /\ vpc' = "pause"
    /\ UNCHANGED << display_method, current_vt, display_vt, retroarch_suspended,
                    fb_bpp, emu_paused, fb_written, stops_sent,
                    wait_result, show_result >>
    /\ ViewerEnvUnchanged

\* 6. write the buffer to /dev/fb0; PermissionError or any other exception
\*    returns the fallback technique's result.
DfbWrite ==
    /\ vpc = "dfb_write"
    /\ \/ /\ fb_written' = TRUE
          /\ vpc' = "dfb_wait"
          /\ UNCHANGED << fell_back_from, active_vt, emu_stopped, conts_sent >>
       \/ /\ fell_back_from' = "write"
          /\ DfbFailCleanup
          /\ vpc' = "pause"
          /\ UNCHANGED fb_written
    /\ UNCHANGED << display_method, current_vt, display_vt, retroarch_suspended,
                    fb_bpp, emu_paused, stops_sent, wait_result, show_result >>
    /\ ViewerEnvUnchanged

\* 7. wait for a button press, or sleep 10 s without evdev.
DfbWait ==
    /\ vpc = "dfb_wait"
    /\ IF EVDEV_AVAILABLE
       THEN \E w \in WaitOutcomes : wait_result' = w
       ELSE wait_result' = "slept"
    /\ vpc' = "dfb_back"
    /\ UNCHANGED << display_method, current_vt, display_vt, retroarch_suspended,
                    fb_bpp, active_vt, emu_stopped, emu_paused, fb_written,
                    stops_sent, conts_sent, fell_back_from, show_result >>
    /\ ViewerEnvUnchanged

\* 8. switch back to the recorded terminal, if one was recorded.
DfbBack ==
    /\ vpc = "dfb_back"
    /\ active_vt' = IF current_vt # 0 THEN Chvt(current_vt) ELSE active_vt
    /\ vpc' = "dfb_resume"
    /\ UNCHANGED << display_method, current_vt, display_vt, retroarch_suspended,
                    fb_bpp, emu_stopped, emu_paused, fb_written, stops_sent,
                    conts_sent, fell_back_from, wait_result, show_result >>
    /\ ViewerEnvUnchanged

\* 9. resume the emulator if it was suspended; return True.
DfbResume ==
    /\ vpc = "dfb_resume"
    /\ ContIfSuspended
    /\ show_result' = "true"
    /\ vpc' = "returned"
    /\ UNCHANGED << display_method, current_vt, display_vt, retroarch_suspended,
                    fb_bpp, active_vt, emu_paused, fb_written, stops_sent,
                    fell_back_from, wait_result >>
    /\ ViewerEnvUnchanged

\* ------------------------------------------------------------------------
\* _show_retroarch_pause: PAUSE_TOGGLE, the hint text as OSD messages,
\* return True.
\* ------------------------------------------------------------------------
\* An overlay fallback that keeps itself selected for the calls that follow.
ShowRetroarchPause_Demotes ==
    /\ vpc = "pause"
    /\ emu_paused' = ~emu_paused
    /\ show_result' = "true"
    /\ vpc' = "returned"
    /\ display_method' = "retroarch_pause"
    /\ UNCHANGED << current_vt, display_vt, retroarch_suspended,
                    fb_bpp, active_vt, emu_stopped, fb_written, stops_sent,
                    conts_sent, fell_back_from, wait_result >>
    /\ ViewerEnvUnchanged

ShowRetroarchPause ==
    /\ vpc = "pause"
    /\ emu_paused' = ~emu_paused
    /\ show_result' = "true"
    /\ vpc' = "returned"
    /\ UNCHANGED << display_method, current_vt, display_vt, retroarch_suspended,
                    fb_bpp, active_vt, emu_stopped, fb_written, stops_sent,
                    conts_sent, fell_back_from, wait_result >>
    /\ ViewerEnvUnchanged

\* ------------------------------------------------------------------------
\* _show_fbv
\* ------------------------------------------------------------------------

\* subprocess.Popen of a viewer binary: started, FileNotFoundError, or
\* another exception (OSError).
PopenOutcomes == {"ok", "not_found", "error"}

\* 1. record the current virtual terminal (best effort).
FbvGetVt ==
    /\ vpc = "fbv_getvt"
    /\ current_vt' = Fgconsole
    /\ vpc' = "fbv_stop"
    /\ UNCHANGED << display_method, display_vt, retroarch_suspended, fb_bpp,
                    active_vt, emu_stopped, emu_paused, fb_written, stops_sent,
                    conts_sent, fell_back_from, wait_result, show_result >>
    /\ ViewerEnvUnchanged

\* 2. stop the emulator.
FbvStop ==
    /\ vpc = "fbv_stop"
    /\ SendStop
    /\ vpc' = "fbv_chvt"
    /\ UNCHANGED << display_method, current_vt, display_vt, fb_bpp,
                    active_vt, emu_paused, fb_written,
                    conts_sent, fell_back_from, wait_result, show_result >>
    /\ ViewerEnvUnchanged

\* 3. switch to a different terminal.
FbvChvt ==
    /\ vpc = "fbv_chvt"
    /\ display_vt' = DisplayVt(current_vt)
    /\ active_vt' = Chvt(DisplayVt(current_vt))
    /\ vpc' = "fbv_popen"
    /\ UNCHANGED << display_method, current_vt, retroarch_suspended, fb_bpp,
                    emu_stopped, emu_paused, fb_written, stops_sent,
                    conts_sent, fell_back_from, wait_result, show_result >>
    /\ ViewerEnvUnchanged

\* 4. start fbv.  FileNotFoundError: resume if suspended, fall back.
\*    Any other exception: chvt back if recorded, pkill -CONT, fall back.
FbvPopen ==
    /\ vpc = "fbv_popen"
    /\ \E o \in PopenOutcomes :
         \/ /\ o = "ok"
            /\ vpc' = "fbv_wait"
            /\ UNCHANGED << active_vt, emu_stopped, conts_sent, fell_back_from >>
         \/ /\ o = "not_found"
            /\ ContIfSuspended
            /\ fell_back_from' = "popen_not_found"
            /\ vpc' = "pause"
            /\ UNCHANGED active_vt
         \/ /\ o = "error"
            /\ active_vt' = IF current_vt # 0 THEN Chvt(current_vt) ELSE active_vt
            /\ SendCont
            /\ fell_back_from' = "popen_error"
            /\ vpc' = "pause"
    /\ UNCHANGED << display_method, current_vt, display_vt, retroarch_suspended,
                    fb_bpp, emu_paused, fb_written, stops_sent,
                    wait_result, show_result >>
    /\ ViewerEnvUnchanged

\* 5. wait for a button press and terminate fbv; without evdev wait for the
\*    process to end or for 300 s.
FbvWait ==
    /\ vpc = "fbv_wait"
    /\ IF EVDEV_AVAILABLE
       THEN \E w \in WaitOutcomes : wait_result' = w
       ELSE \E w \in {"exited", "timeout"} : wait_result' = w
    /\ vpc' = "fbv_back"
    /\ UNCHANGED << display_method, current_vt, display_vt, retroarch_suspended,
                    fb_bpp, active_vt, emu_stopped, emu_paused, fb_written,
                    stops_sent, conts_sent, fell_back_from, show_result >>
    /\ ViewerEnvUnchanged

\* 6. switch back to the recorded terminal, if one was recorded.
FbvBack ==
    /\ vpc = "fbv_back"
    /\ active_vt' = IF current_vt # 0 THEN Chvt(current_vt) ELSE active_vt
    /\ vpc' = "fbv_resume"
    /\ UNCHANGED << display_method, current_vt, display_vt, retroarch_suspended,
                    fb_bpp, emu_stopped, emu_paused, fb_written, stops_sent,
                    conts_sent, fell_back_from, wait_result, show_result >>
    /\ ViewerEnvUnchanged

\* 7. resume the emulator if it was suspended; return True.
FbvResume ==
    /\ vpc = "fbv_resume"
    /\ ContIfSuspended
    /\ show_result' = "true"
    /\ vpc' = "returned"
    /\ UNCHANGED << display_method, current_vt, display_vt, retroarch_suspended,
                    fb_bpp, active_vt, emu_paused, fb_written, stops_sent,
                    fell_back_from, wait_result >>
    /\ ViewerEnvUnchanged

\* ------------------------------------------------------------------------
\* _show_mpv
\* ------------------------------------------------------------------------

\* 1. stop the emulator.
MpvStop ==
    /\ vpc = "mpv_stop"
    /\ SendStop
    /\ vpc' = "mpv_popen"
    /\ UNCHANGED << display_method, current_vt, display_vt, fb_bpp,
                    active_vt, emu_paused, fb_written,
                    conts_sent, fell_back_from, wait_result, show_result >>
    /\ ViewerEnvUnchanged

\* 2. start mpv.  FileNotFoundError: resume if suspended, fall back.
\*    Any other exception: pkill -CONT, fall back.
MpvPopen ==
    /\ vpc = "mpv_popen"
    /\ \E o \in PopenOutcomes :
         \/ /\ o = "ok"
            /\ vpc' = "mpv_wait"
            /\ UNCHANGED << emu_stopped, conts_sent, fell_back_from >>
         \/ /\ o = "not_found"
            /\ ContIfSuspended
            /\ fell_back_from' = "popen_not_found"
            /\ vpc' = "pause"
         \/ /\ o = "error"
            /\ SendCont
            /\ fell_back_from' = "popen_error"
            /\ vpc' = "pause"
    /\ UNCHANGED << display_method, current_vt, display_vt, retroarch_suspended,
                    fb_bpp, active_vt, emu_paused, fb_written, stops_sent,
                    wait_result, show_result >>
    /\ ViewerEnvUnchanged

\* 3. wait for a button press and terminate mpv; without evdev wait for the
\*    process to end or for 300 s.
MpvWait ==
    /\ vpc = "mpv_wait"
    /\ IF EVDEV_AVAILABLE
       THEN \E w \in WaitOutcomes : wait_result' = w
       ELSE \E w \in {"exited", "timeout"} : wait_result' = w
    /\ vpc' = "mpv_resume"
    /\ UNCHANGED << display_method, current_vt, display_vt, retroarch_suspended,
                    fb_bpp, active_vt, emu_stopped, emu_paused, fb_written,
                    stops_sent, conts_sent, fell_back_from, show_result >>
    /\ ViewerEnvUnchanged

\* 5. resume the emulator if it was suspended; return True.
MpvResume ==
    /\ vpc = "mpv_resume"
    /\ ContIfSuspended
    /\ show_result' = "true"
    /\ vpc' = "returned"
    /\ UNCHANGED << display_method, current_vt, display_vt, retroarch_suspended,
                    fb_bpp, active_vt, emu_paused, fb_written, stops_sent,
                    fell_back_from, wait_result >>
    /\ ViewerEnvUnchanged

\* ------------------------------------------------------------------------
\* _show_fbi, _show_feh: subprocess.run(..., timeout=300).  The viewer exits
\* on a key (True), the timeout expires (killall, True), or the run raises
\* (False); neither falls back.
\* ------------------------------------------------------------------------
RunOutcomes == {"exited", "timeout", "error"}

ShowFbi ==
    /\ vpc = "fbi_run"
    /\ \E o \in RunOutcomes :
         /\ wait_result' = o
         /\ show_result' = IF o = "error" THEN "false" ELSE "true"
    /\ vpc' = "returned"
    /\ UNCHANGED << display_method, current_vt, display_vt, retroarch_suspended,
                    fb_bpp, active_vt, emu_stopped, emu_paused, fb_written,
                    stops_sent, conts_sent, fell_back_from >>
    /\ ViewerEnvUnchanged

ShowFeh ==
    /\ vpc = "feh_run"
    /\ \E o \in RunOutcomes :
         /\ wait_result' = o
         /\ show_result' = IF o = "error" THEN "false" ELSE "true"
    /\ vpc' = "returned"
    /\ UNCHANGED << display_method, current_vt, display_vt, retroarch_suspended,
                    fb_bpp, active_vt, emu_stopped, emu_paused, fb_written,
                    stops_sent, conts_sent, fell_back_from >>
    /\ ViewerEnvUnchanged

NextViewerSteps ==
    \/ ShowCall
    \/ DfbRead \/ DfbGetVt \/ DfbStop \/ DfbChvt \/ DfbPrep \/ DfbWrite
    \/ DfbWait \/ DfbBack \/ DfbResume
    \/ FbvGetVt \/ FbvStop \/ FbvChvt \/ FbvPopen \/ FbvWait \/ FbvBack
    \/ FbvResume
    \/ MpvStop \/ MpvPopen \/ MpvWait \/ MpvResume
    \/ ShowFbi \/ ShowFeh \/ ShowRetroarchPause

\* ------------------------------------------------------------------------
\* Threads inside RateLimiter methods: the statements of _reset_if_new_day
\* and of the three public methods, one at a time
\* ------------------------------------------------------------------------
CallThreads == 1..MaxCallers
RLOps == {"can", "record", "stats"}

\* Who calls what: thread 1 is a background task (record_request, then
\* get_usage_stats), the others are on_request_hint threads
\* (can_make_request).
OpsOf(c) == IF c = 1 THEN {"record", "stats"} ELSE {"can"}

\* No thread is inside the limiter.
ParkedCallers ==
    /\ rl_pc = [c \in CallThreads |-> "out"]
    /\ rl_op = [c \in CallThreads |-> "none"]
    /\ rl_today = [c \in CallThreads |-> 0]

\* ------------------------------------------------------------------------
\* HintViewer._convert_to_rgb565
\* ------------------------------------------------------------------------

\* 8-bit channel values: both ends, the largest value the shifts drop
\* entirely and the smallest that survives every shift.
Channels == {0, 7, 8, 255}
Pixels == Channels \X Channels \X Channels

\* Every value of one channel, the other two taken from Channels.
ChannelRange == 0..255
SweepPixels ==
    {<< v, a, b >> : v \in ChannelRange, a \in Channels, b \in Channels}
    \cup {<< a, v, b >> : v \in ChannelRange, a \in Channels, b \in Channels}
    \cup {<< a, b, v >> : v \in ChannelRange, a \in Channels, b \in Channels}

\* Images of up to n pixels, and the one-pixel images of the sweep.
Images(n) ==
    UNION {[1..k -> Pixels] : k \in 0..n} \cup {<< px >> : px \in SweepPixels}

\* x >> n and x << n on Python integers (no width).
ShiftRight(x, n) == x \div (2 ^ n)
ShiftLeft(x, n) == x * (2 ^ n)

\* a | b on non-negative integers, bit by bit.
RECURSIVE BitOr(_, _)
BitOr(a, b) ==
    IF a = 0 THEN b
    ELSE IF b = 0 THEN a
    ELSE (IF a % 2 = 1 \/ b % 2 = 1 THEN 1 ELSE 0)
         + 2 * BitOr(a \div 2, b \div 2)

\* pixel = ((r >> 3) << 11) | ((g >> 2) << 5) | (b >> 3)
Rgb565(px) ==
    BitOr(BitOr(ShiftLeft(ShiftRight(px[1], 3), 11),
                ShiftLeft(ShiftRight(px[2], 2), 5)),
          ShiftRight(px[3], 3))

\* A packing with the high byte first.
PackLE16_HighFirst(w) == << w \div 256, w % 256 >>

\* struct.pack('<H', pixel): low byte first.
PackLE16(w) == << w % 256, w \div 256 >>

\* No conversion is running, for the specifications of the other components.
ParkedPixels ==
    /\ canvas = << >>
    /\ raw_data = << >>
    /\ cpc = "idle"
    /\ ParkedCallers

\* _convert_to_rgb565 is entered with an image: pixels = list(img.getdata()),
\* raw = [].
InitPixels ==
    /\ canvas \in Images(MaxPixels)
    /\ raw_data = << >>
    /\ cpc = "loop"

\* One turn of the loop: the next pixel is packed and appended.
ConvertPixel ==
    /\ cpc = "loop"
    /\ Len(raw_data) < 2 * Len(canvas)
    /\ raw_data' = raw_data \o PackLE16(Rgb565(canvas[(Len(raw_data) \div 2) + 1]))
    /\ UNCHANGED << canvas, cpc >>
    /\ PixelsOnly

\* return b''.join(raw)
ConvertReturn ==
    /\ cpc = "loop"
    /\ Len(raw_data) = 2 * Len(canvas)
    /\ cpc' = "returned"
    /\ UNCHANGED << canvas, raw_data >>
    /\ PixelsOnly

NextPixelSteps == ConvertPixel \/ ConvertReturn

\* ------------------------------------------------------------------------
\* RateLimiter
\* ------------------------------------------------------------------------

HistoryCap == 30

\* A slice that keeps the oldest n entries instead of the newest.
LastN_KeepsOldest(seq, n) ==
    IF Len(seq) <= n THEN seq ELSE SubSeq(seq, 1, n)

\* history[-n:]
LastN(seq, n) ==
    IF Len(seq) <= n THEN seq ELSE SubSeq(seq, Len(seq) - n + 1, Len(seq))

\* A rollover that saves yesterday's count whatever it is.
RolloverHistory_Always(ud) ==
    LastN(Append(ud.history, [date |-> ud.date, count |-> ud.count]),
          HistoryCap)

\* The branch of _reset_if_new_day that saves yesterday's count.
RolloverHistory(ud) ==
    IF ud.date # 0 /\ ud.count > 0
    THEN LastN(Append(ud.history, [date |-> ud.date, count |-> ud.count]),
               HistoryCap)
    ELSE ud.history

\* _reset_if_new_day: usage_data afterwards.
ResetIfNewDay(ud, td) ==
    IF ud.date # td
    THEN [date |-> td, count |-> 0, history |-> RolloverHistory(ud)]
    ELSE ud

\* _reset_if_new_day saves only when it rolled over.
FileAfterReset(ud, td, file) ==
    IF ud.date # td THEN ResetIfNewDay(ud, td) ELSE file

\* A gate that still allows a request at the limit.
CanMakeRequestResult_AllowsAtLimit(ud, td, limit) ==
    IF limit <= 0
    THEN [allowed |-> TRUE, used |-> 0, limit |-> 0]
    ELSE [allowed |-> ResetIfNewDay(ud, td).count <= limit,
          used |-> ResetIfNewDay(ud, td).count,
          limit |-> limit]

\* A gate that treats a limit of 0 or less as a limit like any other.
CanMakeRequestResult_NoUnlimited(ud, td, limit) ==
    [allowed |-> ResetIfNewDay(ud, td).count < limit,
     used |-> ResetIfNewDay(ud, td).count,
     limit |-> limit]

\* can_make_request: (allowed, used, limit)
CanMakeRequestResult(ud, td, limit) ==
    IF limit <= 0
    THEN [allowed |-> TRUE, used |-> 0, limit |-> 0]
    ELSE [allowed |-> ResetIfNewDay(ud, td).count < limit,
          used |-> ResetIfNewDay(ud, td).count,
          limit |-> limit]

\* can_make_request rolls over only with a positive limit.
DataAfterCan(ud, td, limit) ==
    IF limit <= 0 THEN ud ELSE ResetIfNewDay(ud, td)

\* record_request: usage_data afterwards (rollover, then count + 1).
DataAfterRecord(ud, td) ==
    [ResetIfNewDay(ud, td) EXCEPT !.count = @ + 1]

\* _load: the file's contents, or the empty record when there is no file.
EmptyUsage == [date |-> 0, count |-> 0, history |-> << >>]
LoadedUsage == {EmptyUsage} \cup
               {[date |-> 1, count |-> c, history |-> << >>] : c \in 0..1}

\* No usage_counter.json yet.
AbsentFile == [date |-> -1, count |-> 0, history |-> << >>]

\* A usage file the daemon wrote after k days with requests: the entries of
\* the days -k .. -1, oldest first.
OldHistory(k) == [i \in 1..k |-> [date |-> i - k - 1, count |-> 1]]

\* _load of a file whose history is at or just under the cap.
NearCapUsage ==
    {[date |-> 1, count |-> c, history |-> OldHistory(k)] :
        c \in 0..1, k \in (HistoryCap - 1)..HistoryCap}

NoCall == [op |-> "none"]
NoResult == [none |-> TRUE]

\* State after RateLimiter.__init__: the file, if any, is loaded.
InitRL ==
    /\ today = 1
    /\ daily_limit \in -1..MaxLimit
    /\ usage_data \in LoadedUsage
    /\ usage_file = IF usage_data = EmptyUsage THEN AbsentFile ELSE usage_data
    /\ rl_last = NoCall
    /\ records_today = 0
    /\ zero_start = (usage_data.count = 0)

\* State after HintSystem.__init__: the limiter has loaded its file and
\* get_usage_stats() has run once (line 1706).
InitRLStarted ==
    /\ today = 1
    /\ daily_limit \in 0..MaxLimit
    /\ \E loaded \in LoadedUsage :
         /\ usage_data = ResetIfNewDay(loaded, 1)
         /\ usage_file = FileAfterReset(loaded, 1,
                            IF loaded = EmptyUsage THEN AbsentFile ELSE loaded)
    /\ rl_last = NoCall
    /\ records_today = 0
    /\ zero_start = (usage_data.count = 0)

\* State after RateLimiter.__init__ on a long-used installation.
InitRLCap ==
    /\ today = 1
    /\ daily_limit \in 0..MaxLimit
    /\ usage_data \in NearCapUsage
    /\ usage_file = usage_data
    /\ rl_last = NoCall
    /\ records_today = 0
    /\ zero_start = (usage_data.count = 0)

\* The limiter with the default limit and no file, for the specifications
\* of the other components.
ParkedRL ==
    /\ today = 1
    /\ daily_limit = MaxLimit
    /\ usage_data = EmptyUsage
    /\ usage_file = AbsentFile
    /\ rl_last = NoCall
    /\ records_today = 0
    /\ zero_start = TRUE

\* The call rolls the day over: every operation on a stale date, except
\* can_make_request with no limit, which returns before looking at the date.
RolledNow(op) == usage_data.date # today /\ (op # "can" \/ daily_limit > 0)

\* What one RateLimiter call leaves in rl_last: the day it ran on, the data
\* it found, whether it rolled over, the record_request calls of the day so
\* far, and what it returned.
CallRecord(op, result) ==
    [op |-> op,
     day |-> today,
     before |-> usage_data,
     rolled |-> RolledNow(op),
     records |-> IF RolledNow(op) THEN 0 ELSE records_today,
     zero |-> (RolledNow(op) \/ zero_start),
     result |-> result]

\* rate_limiter.can_make_request()
CanMakeRequest ==
    /\ usage_data' = DataAfterCan(usage_data, today, daily_limit)
    /\ usage_file' = IF daily_limit <= 0 THEN usage_file
                     ELSE FileAfterReset(usage_data, today, usage_file)
    /\ rl_last' = CallRecord("can",
                     CanMakeRequestResult(usage_data, today, daily_limit))
    /\ records_today' = IF RolledNow("can") THEN 0 ELSE records_today
    /\ zero_start' = (RolledNow("can") \/ zero_start)
    /\ UNCHANGED << today, daily_limit >>
    /\ RLOnly

\* rate_limiter.record_request()
RecordRequest ==
    /\ ResetIfNewDay(usage_data, today).count < MaxCount
    /\ usage_data' = DataAfterRecord(usage_data, today)
    /\ usage_file' = DataAfterRecord(usage_data, today)
    /\ rl_last' = CallRecord("record", NoResult)
    /\ records_today' = IF RolledNow("record") THEN 1 ELSE records_today + 1
    /\ zero_start' = (RolledNow("record") \/ zero_start)
    /\ UNCHANGED << today, daily_limit >>
    /\ RLOnly

\* rate_limiter.get_usage_stats()
GetUsageStats ==
    /\ usage_data' = ResetIfNewDay(usage_data, today)
    /\ usage_file' = FileAfterReset(usage_data, today, usage_file)
    /\ rl_last' = CallRecord("stats",
                     [date |-> today,
                      used |-> ResetIfNewDay(usage_data, today).count,
                      limit |-> daily_limit,
                      history |-> ResetIfNewDay(usage_data, today).history])
    /\ records_today' = IF RolledNow("stats") THEN 0 ELSE records_today
    /\ zero_start' = (RolledNow("stats") \/ zero_start)
    /\ UNCHANGED << today, daily_limit >>
    /\ RLOnly

\* Midnight passes.
NextDay ==
    /\ today < MaxDay
    /\ today' = today + 1
    /\ UNCHANGED << daily_limit, usage_data, usage_file, rl_last,
                    records_today, zero_start >>
    /\ RLOnly

NextRLSteps == CanMakeRequest \/ RecordRequest \/ GetUsageStats \/ NextDay

\* ------------------------------------------------------------------------
\* RateLimiter, statement by statement, for threads that call it together
\* ------------------------------------------------------------------------

CallFrame == UNCHANGED << today, daily_limit, rl_last, records_today,
                          zero_start >>

\* A thread calls can_make_request, record_request or get_usage_stats; with
\* no limit can_make_request returns at once.
CallEnter(c, op) ==
    /\ rl_pc[c] = "out"
    /\ rl_op[c] = "none"
    /\ rl_op' = [rl_op EXCEPT ![c] = op]
    /\ rl_pc' = [rl_pc EXCEPT ![c] = IF op = "can" /\ daily_limit <= 0
                                     THEN "return" ELSE "get_today"]
    /\ UNCHANGED << rl_today, usage_data, usage_file >>
    /\ CallFrame /\ CallersOnly

\* today = self._get_today()
ResetGetToday(c) ==
    /\ rl_pc[c] = "get_today"
    /\ rl_today' = [rl_today EXCEPT ![c] = today]
    /\ rl_pc' = [rl_pc EXCEPT ![c] = "date_check"]
    /\ UNCHANGED << rl_op, usage_data, usage_file >>
    /\ CallFrame /\ CallersOnly

\* if self.usage_data.get("date") != today:
ResetDateCheck(c) ==
    /\ rl_pc[c] = "date_check"
    /\ rl_pc' = [rl_pc EXCEPT ![c] = IF usage_data.date # rl_today[c]
                                     THEN "count_check" ELSE "body"]
    /\ UNCHANGED << rl_op, rl_today, usage_data, usage_file >>
    /\ CallFrame /\ CallersOnly

\* if self.usage_data.get("date") and self.usage_data.get("count", 0) > 0:
ResetCountCheck(c) ==
    /\ rl_pc[c] = "count_check"
    /\ rl_pc' = [rl_pc EXCEPT ![c] = IF usage_data.date # 0 /\ usage_data.count > 0
                                     THEN "append" ELSE "set_date"]
    /\ UNCHANGED << rl_op, rl_today, usage_data, usage_file >>
    /\ CallFrame /\ CallersOnly

\* history.append({date, count}); self.usage_data["history"] = history[-30:]
ResetAppend(c) ==
    /\ rl_pc[c] = "append"
    /\ usage_data' = [usage_data EXCEPT
                        !.history = LastN(Append(@, [date |-> usage_data.date,
                                                     count |-> usage_data.count]),
                                          HistoryCap)]
    /\ rl_pc' = [rl_pc EXCEPT ![c] = "set_date"]
    /\ UNCHANGED << rl_op, rl_today, usage_file >>
    /\ CallFrame /\ CallersOnly

\* self.usage_data["date"] = today
ResetSetDate(c) ==
    /\ rl_pc[c] = "set_date"
    /\ usage_data' = [usage_data EXCEPT !.date = rl_today[c]]
    /\ rl_pc' = [rl_pc EXCEPT ![c] = "set_count"]
    /\ UNCHANGED << rl_op, rl_today, usage_file >>
    /\ CallFrame /\ CallersOnly

\* self.usage_data["count"] = 0
ResetSetCount(c) ==
    /\ rl_pc[c] = "set_count"
    /\ usage_data' = [usage_data EXCEPT !.count = 0]
    /\ rl_pc' = [rl_pc EXCEPT ![c] = "save"]
    /\ UNCHANGED << rl_op, rl_today, usage_file >>
    /\ CallFrame /\ CallersOnly

\* self._save()
ResetSave(c) ==
    /\ rl_pc[c] = "save"
    /\ usage_file' = usage_data
    /\ rl_pc' = [rl_pc EXCEPT ![c] = "body"]
    /\ UNCHANGED << rl_op, rl_today, usage_data >>
    /\ CallFrame /\ CallersOnly

\* After the rollover: record_request adds one and saves; the other two
\* only read the count.
CallBody(c) ==
    /\ rl_pc[c] = "body"
    /\ IF rl_op[c] = "record"
       THEN /\ usage_data.count < MaxCount
            /\ usage_data' = [usage_data EXCEPT !.count = @ + 1]
            /\ usage_file' = usage_data'
       ELSE UNCHANGED << usage_data, usage_file >>
    /\ rl_pc' = [rl_pc EXCEPT ![c] = "return"]
    /\ UNCHANGED << rl_op, rl_today >>
    /\ CallFrame /\ CallersOnly

\* The method returns.
CallReturn(c) ==
    /\ rl_pc[c] = "return"
    /\ rl_pc' = [rl_pc EXCEPT ![c] = "out"]
    /\ UNCHANGED << rl_op, rl_today, usage_data, usage_file >>
    /\ CallFrame /\ CallersOnly

\* Midnight passes while threads are at work.
CallNextDay ==
    /\ today < MaxDay
    /\ today' = today + 1
    /\ UNCHANGED << daily_limit, usage_data, usage_file, rl_last,
                    records_today, zero_start, cvars >>
    /\ CallersOnly

NextCallerSteps ==
    \/ \E c \in CallThreads :
         \/ \E op \in OpsOf(c) : CallEnter(c, op)
         \/ ResetGetToday(c)
         \/ ResetDateCheck(c)
         \/ ResetCountCheck(c)
         \/ ResetAppend(c)
         \/ ResetSetDate(c)
         \/ ResetSetCount(c)
         \/ ResetSave(c)
         \/ CallBody(c)
         \/ CallReturn(c)
    \/ CallNextDay

\* ------------------------------------------------------------------------
\* record_request against a full or failing disk: the increment and the
\* _save that follows it as separate statements, _save with its outcomes
\* ------------------------------------------------------------------------

\* _save: the file is rewritten; or open() raises and the file stays as it
\* was; or open(..., 'w') has emptied the file and json.dump raises.  The
\* exception is logged in every case and the caller goes on.
SaveOutcomes == {"written", "untouched", "truncated"}

\* usage_counter.json cut short: the next _load logs the error and starts
\* from the empty record.
TruncatedFile == [date |-> -2, count |-> 0, history |-> << >>]

FileAfterSave(o, ud, file) ==
    CASE o = "written" -> ud
      [] o = "untouched" -> file
      [] OTHER -> TruncatedFile

PersistFrame ==
    UNCHANGED << daily_limit, rl_last, rl_today, vvars, hvars, wvars, pvars,
                 tvars, fvars, bvars >>

\* record_request is called (by a background task).
RecordEnter ==
    /\ rl_pc[1] = "out"
    /\ ResetIfNewDay(usage_data, today).count < MaxCount
    /\ rl_op' = [rl_op EXCEPT ![1] = "record"]
    /\ rl_pc' = [rl_pc EXCEPT ![1] = "reset"]
    /\ UNCHANGED << today, usage_data, usage_file, records_today, zero_start >>
    /\ PersistFrame

\* self._reset_if_new_day(), with the _save of its rollover branch.
RecordReset ==
    /\ rl_pc[1] = "reset"
    /\ usage_data' = ResetIfNewDay(usage_data, today)
    /\ IF usage_data.date # today
       THEN /\ \E o \in SaveOutcomes :
                 usage_file' = FileAfterSave(o, usage_data', usage_file)
            /\ records_today' = 0
            /\ zero_start' = TRUE
       ELSE UNCHANGED << usage_file, records_today, zero_start >>
    /\ rl_pc' = [rl_pc EXCEPT ![1] = "incr"]
    /\ UNCHANGED << today, rl_op >>
    /\ PersistFrame

\* self.usage_data["count"] = self.usage_data.get("count", 0) + 1
RecordIncrement ==
    /\ rl_pc[1] = "incr"
    /\ usage_data' = [usage_data EXCEPT !.count = @ + 1]
    /\ records_today' = records_today + 1
    /\ rl_pc' = [rl_pc EXCEPT ![1] = "save"]
    /\ UNCHANGED << today, usage_file, zero_start, rl_op >>
    /\ PersistFrame

\* self._save()
RecordSave ==
    /\ rl_pc[1] = "save"
    /\ \E o \in SaveOutcomes :
         usage_file' = FileAfterSave(o, usage_data, usage_file)
    /\ rl_pc' = [rl_pc EXCEPT ![1] = "return"]
    /\ UNCHANGED << today, usage_data, records_today, zero_start, rl_op >>
    /\ PersistFrame

\* The rest of record_request only logs.
RecordReturn ==
    /\ rl_pc[1] = "return"
    /\ rl_pc' = [rl_pc EXCEPT ![1] = "out"]
    /\ rl_op' = [rl_op EXCEPT ![1] = "none"]
    /\ UNCHANGED << today, usage_data, usage_file, records_today, zero_start >>
    /\ PersistFrame

\* Midnight passes.
PersistNextDay ==
    /\ today < MaxDay
    /\ today' = today + 1
    /\ UNCHANGED << usage_data, usage_file, records_today, zero_start, rl_pc,
                    rl_op >>
    /\ PersistFrame

NextPersistSteps ==
    \/ RecordEnter \/ RecordReset \/ RecordIncrement \/ RecordSave
    \/ RecordReturn \/ PersistNextDay

\* ------------------------------------------------------------------------
\* HotkeyListener
\* ------------------------------------------------------------------------

Buttons == {"BTN_SELECT", "BTN_TL", "BTN_TR", "BTN_A"}
Actions == {"request", "view"}

\* hotkey_request / hotkey_view: the defaults (DEFAULT_CONFIG), two disjoint
\* two-button combos, two one-button combos, and a view combo inside the
\* request combo.
ComboConfigs ==
    { << {"BTN_SELECT", "BTN_TL"}, {"BTN_SELECT", "BTN_TR"} >>,
      << {"BTN_SELECT", "BTN_TL"}, {"BTN_TR", "BTN_A"} >>,
      << {"BTN_TL"}, {"BTN_TR"} >>,
      << {"BTN_SELECT", "BTN_TL"}, {"BTN_TL"} >> }

Combo(a) == IF a = "request" THEN request_combo ELSE view_combo

\* btn_codes: only the buttons of the two combos get a name.
Named(b) == b \in request_combo \cup view_combo

\* Nothing pressed, nothing dispatched.
HotkeyStart ==
    /\ pressed_keys = {}
    /\ held = {}
    /\ hpc = "read"
    /\ dispatched = [a \in Actions |-> 0]
    /\ times_held = [a \in Actions |-> 0]
    /\ pressed_since = [a \in Actions |-> {}]

\* State after HotkeyListener.__init__, for each configuration.
InitHotkey ==
    /\ \E c \in ComboConfigs : request_combo = c[1] /\ view_combo = c[2]
    /\ HotkeyStart

\* The listener with the default combos, for the specifications of the
\* other components.
ParkedHotkey ==
    /\ request_combo = {"BTN_SELECT", "BTN_TL"}
    /\ view_combo = {"BTN_SELECT", "BTN_TR"}
    /\ HotkeyStart

\* pressed_keys after the event's add/discard (lines 1617-1620).
KeysAfterEvent(keys, b, value) ==
    IF value = 1 THEN keys \cup {b}
    ELSE IF value = 0 THEN keys \ {b}
    ELSE keys

\* A matcher satisfied by any one button of a combo.
MatchedAction_AnyButton(keys) ==
    IF request_combo \cap keys # {} THEN "request"
    ELSE IF view_combo \cap keys # {} THEN "view"
    ELSE "none"

\* A matcher that tests the view combo first.
MatchedAction_ViewFirst(keys) ==
    IF view_combo \subseteq keys THEN "view"
    ELSE IF request_combo \subseteq keys THEN "request"
    ELSE "none"

\* _check_combos: the action whose combo the pressed set satisfies, request
\* first; "none" when neither does.
MatchedAction(keys) ==
    IF request_combo \subseteq keys THEN "request"
    ELSE IF view_combo \subseteq keys THEN "view"
    ELSE "none"

\* A matcher that leaves the pressed set as it is.
KeysAfterCheck_NoClear(keys) == keys

\* _check_combos: the pressed set after the evaluation (cleared on a match).
KeysAfterCheck(keys) ==
    IF MatchedAction(keys) # "none" THEN {} ELSE keys

\* The controller after the event.
HeldAfter(b, value) ==
    IF value = 1 THEN held \cup {b}
    ELSE IF value = 0 THEN held \ {b}
    ELSE held

\* One EV_KEY event read from device.read_loop(): value 1 press, 0 release,
\* 2 autorepeat.  The event of a button without a name is skipped.
KeyEvent(b, value) ==
    /\ hpc = "read"
    /\ value = 1 => b \notin held
    /\ value \in {0, 2} => b \in held
    /\ \A a \in Actions :
         Combo(a) \subseteq HeldAfter(b, value) /\ ~(Combo(a) \subseteq held)
            => times_held[a] < MaxHolds
    /\ held' = HeldAfter(b, value)
    /\ times_held' =
         [a \in Actions |->
            IF Combo(a) \subseteq HeldAfter(b, value) /\ ~(Combo(a) \subseteq held)
            THEN times_held[a] + 1 ELSE times_held[a]]
    /\ pressed_since' =
         [a \in Actions |->
            IF value = 1 /\ Named(b) THEN pressed_since[a] \cup {b}
            ELSE pressed_since[a]]
    /\ IF Named(b)
       THEN /\ pressed_keys' = KeysAfterCheck(KeysAfterEvent(pressed_keys, b, value))
            /\ hpc' = IF MatchedAction(KeysAfterEvent(pressed_keys, b, value)) = "none"
                      THEN "read"
                      ELSE MatchedAction(KeysAfterEvent(pressed_keys, b, value))
       ELSE UNCHANGED << pressed_keys, hpc >>
    /\ UNCHANGED << request_combo, view_combo, dispatched >>
    /\ HotkeyOnly

\* threading.Thread(target=self.on_request / self.on_view).start(), after
\* the pressed set was cleared.
StartThread ==
    /\ hpc \in Actions
    /\ dispatched' = [dispatched EXCEPT ![hpc] = @ + 1]
    /\ pressed_since' = [pressed_since EXCEPT ![hpc] = {}]
    /\ hpc' = "read"
    /\ UNCHANGED << request_combo, view_combo, pressed_keys, held, times_held >>
    /\ HotkeyOnly

NextHotkeySteps ==
    \/ \E b \in Buttons, value \in {0, 1, 2} : KeyEvent(b, value)
    \/ StartThread

\* ------------------------------------------------------------------------
\* HotkeyListener._listen_fallback: the listener thread polls for the two
\* sentinel files (used without evdev, and after the evdev loop raised)
\* ------------------------------------------------------------------------

\* Where the listener thread is: at the exists() test of a file, at its
\* unlink(), inside the callback, or in one of the two sleeps.
At(where, a) == [at |-> where, of |-> a]

\* The polling loop is not running (the evdev loop is).
ParkedFallback ==
    /\ triggers = {}
    /\ fpc = At("off", "none")
    /\ invoked = [a \in Actions |-> 0]
    /\ touches = 0

\* _listen_fallback was entered; no sentinel file exists yet.
InitFallback ==
    /\ triggers = {}
    /\ fpc = At("test", "request")
    /\ invoked = [a \in Actions |-> 0]
    /\ touches = 0

\* What follows a file's block in the loop body: the view test after the
\* request block, time.sleep(0.2) after the view block.
AfterBlock(a) ==
    IF a = "request" THEN At("test", "view") ELSE At("sleep", "none")

\* Somebody creates .request_hint or .view_hint.
TriggerTouched(a) ==
    /\ a \notin triggers
    /\ touches < MaxTouches
    /\ triggers' = triggers \cup {a}
    /\ touches' = touches + 1
    /\ UNCHANGED << fpc, invoked >>
    /\ FallbackOnly

\* if request_trigger.exists(): / if view_trigger.exists():
FallbackTest(a) ==
    /\ fpc = At("test", a)
    /\ fpc' = IF a \in triggers THEN At("unlink", a) ELSE AfterBlock(a)
    /\ UNCHANGED << triggers, invoked, touches >>
    /\ FallbackOnly

\* An unlink whose failure is ignored: the callback is called either way.
FallbackUnlink_CallsAnyway(a) ==
    /\ fpc = At("unlink", a)
    /\ \E removed \in BOOLEAN :
         /\ triggers' = IF removed THEN triggers \ {a} ELSE triggers
         /\ fpc' = At("call", a)
    /\ UNCHANGED << invoked, touches >>
    /\ FallbackOnly

\* trigger.unlink(): the file is removed, or unlink raises (no permission on
\* the directory) and the handler at the end of the loop body sleeps 1 s.
FallbackUnlink(a) ==
    /\ fpc = At("unlink", a)
    /\ \E removed \in BOOLEAN :
         IF removed
         THEN /\ triggers' = triggers \ {a}
              /\ fpc' = At("call", a)
         ELSE /\ fpc' = At("err_sleep", "none")
              /\ UNCHANGED triggers
    /\ UNCHANGED << invoked, touches >>
    /\ FallbackOnly

\* self.on_request() / self.on_view(): called on the listener thread.
FallbackCall(a) ==
    /\ fpc = At("call", a)
    /\ invoked' = [invoked EXCEPT ![a] = @ + 1]
    /\ fpc' = At("in_call", a)
    /\ UNCHANGED << triggers, touches >>
    /\ FallbackOnly

\* The callback returns, or raises into the handler of the loop body.
FallbackCallEnds(a) ==
    /\ fpc = At("in_call", a)
    /\ \E raised \in BOOLEAN :
         fpc' = IF raised THEN At("err_sleep", "none") ELSE AfterBlock(a)
    /\ UNCHANGED << triggers, invoked, touches >>
    /\ FallbackOnly

\* time.sleep(0.2), or time.sleep(1) in the handler; the loop starts over.
FallbackSleep ==
    /\ fpc.at \in {"sleep", "err_sleep"}
    /\ fpc' = At("test", "request")
    /\ UNCHANGED << triggers, invoked, touches >>
    /\ FallbackOnly

NextFallbackSteps ==
    \/ \E a \in Actions :
         \/ TriggerTouched(a)
         \/ FallbackTest(a)
         \/ FallbackUnlink(a)
         \/ FallbackCall(a)
         \/ FallbackCallEnds(a)
    \/ FallbackSleep

\* ------------------------------------------------------------------------
\* HintSystem: on_request_hint and the background task
\* ------------------------------------------------------------------------
\* Thread t runs the t-th request, thread v the v-th view.
ReqThreads == 1..MaxRequests
ViewThreads == 1..MaxViews

\* Positions of the background task (_process_hint_request).
TaskPcs == {"t_api", "t_err_clear", "t_record", "t_render", "t_archive",
            "t_set_path", "t_set_ready", "t_clear", "t_log", "t_stats",
            "t_except", "t_exc_clear"}
\* Positions of the handler (on_request_hint).
HandlerPcs == {"r_check", "r_gate", "r_set_processing", "r_clear_ready",
               "r_status", "r_nogame", "r_capture", "r_capfail", "r_spawn"}
\* A thread that is not running: never started, returned, or ended by an
\* uncaught exception.
RestPcs == {"idle", "done", "dead"}

FreshLocals ==
    [outcome |-> "none", task |-> FALSE, api |-> "none",
     fail |-> "none", cleared |-> FALSE, set_ready |-> FALSE]

Usage(event, success) == [event |-> event, success |-> success]

\* State after HintSystem.__init__ (lines 1721-1723), no thread started.
InitWorkflow ==
    /\ processing = FALSE
    /\ hint_ready = FALSE
    /\ current_hint_path = 0
    /\ hint_files = [txt |-> 0, png |-> 0]
    /\ rpc = [t \in ReqThreads |-> "idle"]
    /\ rloc = [t \in ReqThreads |-> FreshLocals]
    /\ usage_log = [t \in ReqThreads |-> {}]
    /\ vwpc = [v \in ViewThreads |-> "idle"]
    /\ cmd_log = [v \in ViewThreads |-> << >>]
    /\ requests = 0
    /\ views = 0

\* What a step of a request thread leaves alone besides what it names.
ReqFrame == UNCHANGED << vvars, hvars, pvars, cvars, tvars, fvars, bvars, today, daily_limit, rl_last,
                         records_today, zero_start, vwpc, cmd_log, views >>

\* _check_combos starts a thread running on_request_hint.
DispatchRequest(t) ==
    /\ t = requests + 1
    /\ rpc[t] = "idle"
    /\ requests' = requests + 1
    /\ rpc' = [rpc EXCEPT ![t] = "r_check"]
    /\ UNCHANGED << rloc, usage_log >>
    /\ UNCHANGED << processing, hint_ready, current_hint_path, hint_files,
                    usage_data, usage_file >>
    /\ ReqFrame

\* A mis-ordered handler: the quota gate (with its rollover) runs before the
\* processing check.
ReqCheckProcessing_GateFirst(t) ==
    /\ rpc[t] = "r_check"
    /\ usage_data' = DataAfterCan(usage_data, today, daily_limit)
    /\ usage_file' = IF daily_limit <= 0 THEN usage_file
                     ELSE FileAfterReset(usage_data, today, usage_file)
    /\ IF processing
       THEN /\ rpc' = [rpc EXCEPT ![t] = "done"]
            /\ rloc' = [rloc EXCEPT ![t].outcome = "busy"]
       ELSE /\ rpc' = [rpc EXCEPT ![t] = "r_gate"]
            /\ UNCHANGED rloc
    /\ UNCHANGED << processing, hint_ready, current_hint_path, hint_files,
                    usage_log, requests >>
    /\ ReqFrame

\* if self.processing: notice, return
ReqCheckProcessing(t) ==
    /\ rpc[t] = "r_check"
    /\ IF processing
       THEN /\ rpc' = [rpc EXCEPT ![t] = "done"]
            /\ rloc' = [rloc EXCEPT ![t].outcome = "busy"]
       ELSE /\ rpc' = [rpc EXCEPT ![t] = "r_gate"]
            /\ UNCHANGED rloc
    /\ UNCHANGED << processing, hint_ready, current_hint_path, hint_files,
                    usage_log, requests, usage_data, usage_file >>
    /\ ReqFrame

\* A gate that withdraws the ready hint when it turns a request away.
ReqGate_ClearsReady(t) ==
    /\ rpc[t] = "r_gate"
    /\ usage_data' = DataAfterCan(usage_data, today, daily_limit)
    /\ usage_file' = IF daily_limit <= 0 THEN usage_file
                     ELSE FileAfterReset(usage_data, today, usage_file)
    /\ IF CanMakeRequestResult(usage_data, today, daily_limit).allowed
       THEN /\ rpc' = [rpc EXCEPT ![t] = "r_set_processing"]
            /\ UNCHANGED << rloc, usage_log, hint_ready >>
       ELSE /\ rpc' = [rpc EXCEPT ![t] = "done"]
            /\ rloc' = [rloc EXCEPT ![t].outcome = "limited"]
            /\ usage_log' = [usage_log EXCEPT
                               ![t] = @ \cup {Usage("RATE_LIMITED", FALSE)}]
            /\ hint_ready' = FALSE
    /\ UNCHANGED << processing, current_hint_path, hint_files, requests >>
    /\ ReqFrame

\* allowed, used, limit = can_make_request(); if not allowed: notice,
\* log_usage("RATE_LIMITED", success=False), return
ReqGate(t) ==
    /\ rpc[t] = "r_gate"
    /\ usage_data' = DataAfterCan(usage_data, today, daily_limit)
    /\ usage_file' = IF daily_limit <= 0 THEN usage_file
                     ELSE FileAfterReset(usage_data, today, usage_file)
    /\ IF CanMakeRequestResult(usage_data, today, daily_limit).allowed
       THEN /\ rpc' = [rpc EXCEPT ![t] = "r_set_processing"]
            /\ UNCHANGED << rloc, usage_log >>
       ELSE /\ rpc' = [rpc EXCEPT ![t] = "done"]
            /\ rloc' = [rloc EXCEPT ![t].outcome = "limited"]
            /\ usage_log' = [usage_log EXCEPT
                               ![t] = @ \cup {Usage("RATE_LIMITED", FALSE)}]
    /\ UNCHANGED << processing, hint_ready, current_hint_path, hint_files,
                    requests >>
    /\ ReqFrame

\* self.processing = True
ReqSetProcessing(t) ==
    /\ rpc[t] = "r_set_processing"
    /\ processing' = TRUE
    /\ rpc' = [rpc EXCEPT ![t] = "r_clear_ready"]
    /\ UNCHANGED << hint_ready, current_hint_path, hint_files, rloc,
                    usage_log, requests, usage_data, usage_file >>
    /\ ReqFrame

\* self.hint_ready = False
ReqClearReady(t) ==
    /\ rpc[t] = "r_clear_ready"
    /\ hint_ready' = FALSE
    /\ rpc' = [rpc EXCEPT ![t] = "r_status"]
    /\ UNCHANGED << processing, current_hint_path, hint_files, rloc,
                    usage_log, requests, usage_data, usage_file >>
    /\ ReqFrame

\* get_status(): a game is playing or paused, or there is none (contentless,
\* or no answer within the socket timeout).
StatusOutcomes == {"playing", "paused", "none"}

\* status = self.retroarch.get_status(); the "No game running" test
ReqStatus(t) ==
    /\ rpc[t] = "r_status"
    /\ \E st \in StatusOutcomes :
         rpc' = [rpc EXCEPT ![t] = IF st = "none" THEN "r_nogame"
                                   ELSE "r_capture"]
    /\ UNCHANGED << processing, hint_ready, current_hint_path, hint_files,
                    rloc, usage_log, requests, usage_data, usage_file >>
    /\ ReqFrame

\* "No game running!": self.processing = False; return
ReqNoGame(t) ==
    /\ rpc[t] = "r_nogame"
    /\ processing' = FALSE
    /\ rpc' = [rpc EXCEPT ![t] = "done"]
    /\ rloc' = [rloc EXCEPT ![t].outcome = "nogame"]
    /\ UNCHANGED << hint_ready, current_hint_path, hint_files,
                    usage_log, requests, usage_data, usage_file >>
    /\ ReqFrame

\* screenshots.capture(): a file, None, or an exception from the directory
\* scan (png.stat() on a file that vanished), which nothing catches.
CaptureOutcomes == {"ok", "none", "raise"}

\* screenshot = self.screenshots.capture()
ReqCapture(t) ==
    /\ rpc[t] = "r_capture"
    /\ \E c \in CaptureOutcomes :
         /\ rpc' = [rpc EXCEPT ![t] = CASE c = "ok" -> "r_spawn"
                                        [] c = "none" -> "r_capfail"
                                        [] OTHER -> "dead"]
         /\ rloc' = [rloc EXCEPT ![t].outcome =
                        IF c = "raise" THEN "raised" ELSE @]
    /\ UNCHANGED << processing, hint_ready, current_hint_path, hint_files,
                    usage_log, requests, usage_data, usage_file >>
    /\ ReqFrame

\* "Screenshot capture failed": self.processing = False; return
ReqCaptureFailed(t) ==
    /\ rpc[t] = "r_capfail"
    /\ processing' = FALSE
    /\ rpc' = [rpc EXCEPT ![t] = "done"]
    /\ rloc' = [rloc EXCEPT ![t].outcome = "capfail"]
    /\ UNCHANGED << hint_ready, current_hint_path, hint_files,
                    usage_log, requests, usage_data, usage_file >>
    /\ ReqFrame

\* threading.Thread(target=self._process_hint_request, ...).start()
ReqSpawn(t) ==
    /\ rpc[t] = "r_spawn"
    /\ rpc' = [rpc EXCEPT ![t] = "t_api"]
    /\ rloc' = [rloc EXCEPT ![t].outcome = "spawned", ![t].task = TRUE]
    /\ UNCHANGED << processing, hint_ready, current_hint_path, hint_files,
                    usage_log, requests, usage_data, usage_file >>
    /\ ReqFrame

\* ai_client.get_hint(): hint text, an error-shaped text ("Error: ...",
\* "API Error: ..."), or an exception (the screenshot cannot be read).
ApiOutcomes == {"ok", "error", "raise"}

\* hint_text = get_hint(...); on an error-shaped text: notice,
\* log_usage("API_ERROR", success=False)
TaskApi(t) ==
    /\ rpc[t] = "t_api"
    /\ \E a \in ApiOutcomes :
         /\ rpc' = [rpc EXCEPT ![t] = CASE a = "ok" -> "t_record"
                                        [] a = "error" -> "t_err_clear"
                                        [] OTHER -> "t_except"]
         /\ rloc' = [rloc EXCEPT ![t].api = a,
                                 ![t].fail = IF a = "raise" THEN "api" ELSE @]
         /\ usage_log' = [usage_log EXCEPT
                            ![t] = IF a = "error"
                                   THEN @ \cup {Usage("API_ERROR", FALSE)}
                                   ELSE @]
    /\ UNCHANGED << processing, hint_ready, current_hint_path, hint_files,
                    requests, usage_data, usage_file >>
    /\ ReqFrame

\* An error path that counts the failed call against the quota.
TaskErrClear_Records(t) ==
    /\ rpc[t] = "t_err_clear"
    /\ processing' = FALSE
    /\ usage_data' = DataAfterRecord(usage_data, today)
    /\ usage_file' = DataAfterRecord(usage_data, today)
    /\ rpc' = [rpc EXCEPT ![t] = "done"]
    /\ rloc' = [rloc EXCEPT ![t].cleared = TRUE]
    /\ UNCHANGED << hint_ready, current_hint_path, hint_files,
                    usage_log, requests >>
    /\ ReqFrame

\* (error-shaped response) self.processing = False; return
TaskErrClear(t) ==
    /\ rpc[t] = "t_err_clear"
    /\ processing' = FALSE
    /\ rpc' = [rpc EXCEPT ![t] = "done"]
    /\ rloc' = [rloc EXCEPT ![t].cleared = TRUE]
    /\ UNCHANGED << hint_ready, current_hint_path, hint_files,
                    usage_log, requests, usage_data, usage_file >>
    /\ ReqFrame

\* A task that goes on to render without recording the request.
TaskRecord_Skips(t) ==
    /\ rpc[t] = "t_record"
    /\ rpc' = [rpc EXCEPT ![t] = "t_render"]
    /\ UNCHANGED << processing, hint_ready, current_hint_path, hint_files,
                    rloc, usage_log, requests, usage_data, usage_file >>
    /\ ReqFrame

\* self.rate_limiter.record_request(game, system, success=True)
TaskRecord(t) ==
    /\ rpc[t] = "t_record"
    /\ usage_data' = DataAfterRecord(usage_data, today)
    /\ usage_file' = DataAfterRecord(usage_data, today)
    /\ rpc' = [rpc EXCEPT ![t] = "t_render"]
    /\ UNCHANGED << processing, hint_ready, current_hint_path, hint_files,
                    rloc, usage_log, requests >>
    /\ ReqFrame

\* renderer.render(): writes current-hint.txt, then current-hint.png; either
\* write can raise.
RenderOutcomes == {"ok", "raise_txt", "raise_png"}

\* hint_path = self.renderer.render(hint_text, game, system)
TaskRender(t) ==
    /\ rpc[t] = "t_render"
    /\ \E r \in RenderOutcomes :
         /\ hint_files' =
              CASE r = "ok" -> [txt |-> t, png |-> t]
                [] r = "raise_png" -> [hint_files EXCEPT !.txt = t]
                [] OTHER -> hint_files
         /\ rpc' = [rpc EXCEPT ![t] = IF r = "ok" THEN "t_archive"
                                      ELSE "t_except"]
         /\ rloc' = [rloc EXCEPT ![t].fail = IF r = "ok" THEN @ ELSE "render"]
    /\ UNCHANGED << processing, hint_ready, current_hint_path,
                    usage_log, requests, usage_data, usage_file >>
    /\ ReqFrame

\* archive_path = self.archive.save(hint_path, system, game): mkdir and
\* copy2, which can raise.
TaskArchive(t) ==
    /\ rpc[t] = "t_archive"
    /\ \E ok \in BOOLEAN :
         /\ rpc' = [rpc EXCEPT ![t] = IF ok THEN "t_set_path" ELSE "t_except"]
         /\ rloc' = [rloc EXCEPT ![t].fail = IF ok THEN @ ELSE "archive"]
    /\ UNCHANGED << processing, hint_ready, current_hint_path, hint_files,
                    usage_log, requests, usage_data, usage_file >>
    /\ ReqFrame

\* A task that marks the hint ready without storing the artifact's path.
TaskSetPath_Forgets(t) ==
    /\ rpc[t] = "t_set_path"
    /\ rpc' = [rpc EXCEPT ![t] = "t_set_ready"]
    /\ UNCHANGED << processing, hint_ready, current_hint_path, hint_files,
                    rloc, usage_log, requests, usage_data, usage_file >>
    /\ ReqFrame

\* self.current_hint_path = hint_path
TaskSetPath(t) ==
    /\ rpc[t] = "t_set_path"
    /\ current_hint_path' = 1
    /\ rpc' = [rpc EXCEPT ![t] = "t_set_ready"]
    /\ UNCHANGED << processing, hint_ready, hint_files, rloc,
                    usage_log, requests, usage_data, usage_file >>
    /\ ReqFrame

\* self.hint_ready = True
TaskSetReady(t) ==
    /\ rpc[t] = "t_set_ready"
    /\ hint_ready' = TRUE
    /\ rpc' = [rpc EXCEPT ![t] = "t_clear"]
    /\ rloc' = [rloc EXCEPT ![t].set_ready = TRUE]
    /\ UNCHANGED << processing, current_hint_path, hint_files,
                    usage_log, requests, usage_data, usage_file >>
    /\ ReqFrame

\* self.processing = False (success path)
TaskClear(t) ==
    /\ rpc[t] = "t_clear"
    /\ processing' = FALSE
    /\ rpc' = [rpc EXCEPT ![t] = "t_log"]
    /\ rloc' = [rloc EXCEPT ![t].cleared = TRUE]
    /\ UNCHANGED << hint_ready, current_hint_path, hint_files,
                    usage_log, requests, usage_data, usage_file >>
    /\ ReqFrame

\* log_usage("HINT_GENERATED", success=True); the "ready" notice
TaskLog(t) ==
    /\ rpc[t] = "t_log"
    /\ usage_log' = [usage_log EXCEPT
                       ![t] = @ \cup {Usage("HINT_GENERATED", TRUE)}]
    /\ rpc' = [rpc EXCEPT ![t] = "t_stats"]
    /\ UNCHANGED << processing, hint_ready, current_hint_path, hint_files,
                    rloc, requests, usage_data, usage_file >>
    /\ ReqFrame

\* stats = self.rate_limiter.get_usage_stats()
TaskStats(t) ==
    /\ rpc[t] = "t_stats"
    /\ usage_data' = ResetIfNewDay(usage_data, today)
    /\ usage_file' = FileAfterReset(usage_data, today, usage_file)
    /\ rpc' = [rpc EXCEPT ![t] = "done"]
    /\ UNCHANGED << processing, hint_ready, current_hint_path, hint_files,
                    rloc, usage_log, requests >>
    /\ ReqFrame

\* except Exception: log_usage("PROCESSING_ERROR", success=False); notice
TaskExcept(t) ==
    /\ rpc[t] = "t_except"
    /\ usage_log' = [usage_log EXCEPT
                       ![t] = @ \cup {Usage("PROCESSING_ERROR", FALSE)}]
    /\ rpc' = [rpc EXCEPT ![t] = "t_exc_clear"]
    /\ UNCHANGED << processing, hint_ready, current_hint_path, hint_files,
                    rloc, requests, usage_data, usage_file >>
    /\ ReqFrame

\* A handler that ends without clearing the flag.
TaskExcClear_Forgets(t) ==
    /\ rpc[t] = "t_exc_clear"
    /\ rpc' = [rpc EXCEPT ![t] = "done"]
    /\ UNCHANGED << processing, hint_ready, current_hint_path, hint_files,
                    rloc, usage_log, requests, usage_data, usage_file >>
    /\ ReqFrame

\* (except Exception) self.processing = False
TaskExcClear(t) ==
    /\ rpc[t] = "t_exc_clear"
    /\ processing' = FALSE
    /\ rpc' = [rpc EXCEPT ![t] = "done"]
    /\ rloc' = [rloc EXCEPT ![t].cleared = TRUE]
    /\ UNCHANGED << hint_ready, current_hint_path, hint_files,
                    usage_log, requests, usage_data, usage_file >>
    /\ ReqFrame

\* ------------------------------------------------------------------------
\* HintSystem: on_view_hint
\* ------------------------------------------------------------------------
ViewPcs == {"v_check", "v_save", "v_show", "v_in_show", "v_load"}

\* The view combo pressed up to MaxPresses times, each press a thread of its
\* own running on_view_hint.
PressThreads == 1..MaxPresses

ViewFrame == UNCHANGED << vvars, hvars, rvars, pvars, cvars, tvars, fvars, bvars,
                          processing, hint_ready,
                          current_hint_path, hint_files, rpc, rloc, usage_log,
                          requests >>

\* _check_combos starts a thread running on_view_hint.
DispatchView(v) ==
    /\ v = views + 1
    /\ vwpc[v] = "idle"
    /\ views' = views + 1
    /\ vwpc' = [vwpc EXCEPT ![v] = "v_check"]
    /\ UNCHANGED cmd_log
    /\ ViewFrame

\* A check that only asks whether an artifact path is set.
ViewCheck_PathOnly(v) ==
    /\ vwpc[v] = "v_check"
    /\ vwpc' = [vwpc EXCEPT ![v] = IF current_hint_path = 0
                                   THEN "done" ELSE "v_save"]
    /\ UNCHANGED << cmd_log, views >>
    /\ ViewFrame

\* if not self.hint_ready or not self.current_hint_path: notice, return
ViewCheck(v) ==
    /\ vwpc[v] = "v_check"
    /\ vwpc' = [vwpc EXCEPT ![v] = IF ~hint_ready \/ current_hint_path = 0
                                   THEN "done" ELSE "v_save"]
    /\ UNCHANGED << cmd_log, views >>
    /\ ViewFrame

\* self.retroarch.save_state(slot); time.sleep(2.0)
ViewSave(v) ==
    /\ vwpc[v] = "v_save"
    /\ cmd_log' = [cmd_log EXCEPT ![v] = Append(@, "save")]
    /\ vwpc' = [vwpc EXCEPT ![v] = "v_show"]
    /\ UNCHANGED views
    /\ ViewFrame

\* self.viewer.show(self.current_hint_path) is entered
ViewShowBegin(v) ==
    /\ vwpc[v] = "v_show"
    /\ cmd_log' = [cmd_log EXCEPT ![v] = Append(@, "show")]
    /\ vwpc' = [vwpc EXCEPT ![v] = "v_in_show"]
    /\ UNCHANGED views
    /\ ViewFrame

\* A handler that restores the state only when show reported success.
AfterShow_SkipOnFalse(result) == IF result THEN "v_load" ELSE "done"

\* What on_view_hint does with the value show returned: nothing, it goes on
\* to restore the state.
AfterShow(result) == "v_load"

\* self.viewer.show(...) returns True or False
ViewShowEnd(v) ==
    /\ vwpc[v] = "v_in_show"
    /\ \E result \in BOOLEAN : vwpc' = [vwpc EXCEPT ![v] = AfterShow(result)]
    /\ UNCHANGED << cmd_log, views >>
    /\ ViewFrame

\* time.sleep(0.2); self.retroarch.load_state(slot)
ViewLoad(v) ==
    /\ vwpc[v] = "v_load"
    /\ cmd_log' = [cmd_log EXCEPT ![v] = Append(@, "load")]
    /\ vwpc' = [vwpc EXCEPT ![v] = "done"]
    /\ UNCHANGED views
    /\ ViewFrame

\* ------------------------------------------------------------------------
\* on_view_hint against the clock: the save state is written by the emulator
\* while the handler sleeps
\* ------------------------------------------------------------------------

\* time.sleep(2.0), in seconds
SaveSleep == 2

\* Seconds the emulator needs to write a save state; it varies with the
\* platform and the size of the state.
SaveLatencies == 0..MaxLatency

\* No save is being written and no handler sleeps.
ParkedSave ==
    /\ save_left = [v \in PressThreads |-> 0]
    /\ sleep_left = [v \in PressThreads |-> 0]

SaveFrame == UNCHANGED << vvars, hvars, rvars, pvars, cvars, fvars, bvars, processing,
                          hint_ready, current_hint_path, hint_files, rpc, rloc,
                          usage_log, requests, views >>

\* self.retroarch.save_state(slot) sends the command and returns; the
\* emulator starts writing the state; time.sleep(2.0) begins.
SaveStateSent(v) ==
    /\ vwpc[v] = "v_save"
    /\ \E l \in SaveLatencies : save_left' = [save_left EXCEPT ![v] = l]
    /\ sleep_left' = [sleep_left EXCEPT ![v] = SaveSleep]
    /\ cmd_log' = [cmd_log EXCEPT ![v] = Append(@, "save")]
    /\ vwpc' = [vwpc EXCEPT ![v] = "v_sleep"]
    /\ SaveFrame

\* The emulator is inside a presentation: stopped or paused by show.
EmulatorHeld == \E v \in PressThreads : vwpc[v] = "v_in_show"

\* One second passes: every sleep has a second less to go, and so has every
\* save the emulator is writing, unless the emulator is held.
SecondPasses ==
    /\ \E v \in PressThreads : save_left[v] > 0 \/ sleep_left[v] > 0
    /\ sleep_left' = [v \in PressThreads |->
                        IF sleep_left[v] > 0 THEN sleep_left[v] - 1 ELSE 0]
    /\ save_left' = [v \in PressThreads |->
                       IF save_left[v] > 0 /\ ~EmulatorHeld
                       THEN save_left[v] - 1 ELSE save_left[v]]
    /\ UNCHANGED << vwpc, cmd_log >>
    /\ SaveFrame

\* time.sleep(2.0) returns.
SleepReturns(v) ==
    /\ vwpc[v] = "v_sleep"
    /\ sleep_left[v] = 0
    /\ vwpc' = [vwpc EXCEPT ![v] = "v_show"]
    /\ UNCHANGED << cmd_log, save_left, sleep_left >>
    /\ SaveFrame

\* ------------------------------------------------------------------------
\* HintViewer._wait_for_button_press(timeout), in whole seconds
\* ------------------------------------------------------------------------

\* Input events by type and value: a key going down, up, repeating, and an
\* axis event whose value happens to be 1.
Ev(type, value) == [type |-> type, value |-> value]
InputEvents == {Ev("EV_KEY", 1), Ev("EV_KEY", 0), Ev("EV_KEY", 2),
                Ev("EV_ABS", 1)}
Timeouts == 1..MaxTimeout

\* What one device.read() can return once select reported the device
\* readable.
Batches == UNION {[1..n -> InputEvents] : n \in 1..MaxBatch}

\* The test of a wait that takes every key event for a press.
IsPress_AnyKey(e) == e.type = "EV_KEY"

\* event.type == evdev.ecodes.EV_KEY and event.value == 1
IsPress(e) == e.type = "EV_KEY" /\ e.value = 1

\* No wait is running.
ParkedWait ==
    /\ bpc = "off"
    /\ timeout = 0
    /\ clock = 0
    /\ elapsed = 0
    /\ batch = << >>
    /\ handled = {}
    /\ caught = FALSE
    /\ ret = "none"

\* _wait_for_button_press was called.
InitWait ==
    /\ bpc = "open"
    /\ timeout \in Timeouts
    /\ clock = 0
    /\ elapsed = 0
    /\ batch = << >>
    /\ handled = {}
    /\ caught = FALSE
    /\ ret = "none"

\* except Exception: log, return False
WaitRaises ==
    /\ caught' = TRUE
    /\ ret' = "false"
    /\ bpc' = "returned"

\* device = evdev.InputDevice(device_path); start_time = time.time()
WaitOpen ==
    /\ bpc = "open"
    /\ \/ bpc' = "top" /\ UNCHANGED << caught, ret >>
       \/ WaitRaises
    /\ UNCHANGED << timeout, clock, elapsed, batch, handled >>
    /\ WaitOnly

\* elapsed = time.time() - start_time; if elapsed >= timeout: return False
WaitTop ==
    /\ bpc = "top"
    /\ elapsed' = clock
    /\ IF clock >= timeout
       THEN ret' = "false" /\ bpc' = "returned"
       ELSE bpc' = "select" /\ UNCHANGED ret
    /\ UNCHANGED << timeout, clock, batch, handled, caught >>
    /\ WaitOnly

\* select.select([device.fd], [], [], min(remaining, 1.0)): the device is
\* readable, or the second is over and it is not, or select raises.
WaitSelect ==
    /\ bpc = "select"
    /\ \/ bpc' = "read" /\ UNCHANGED << caught, ret >>
       \/ clock > elapsed /\ bpc' = "top" /\ UNCHANGED << caught, ret >>
       \/ WaitRaises
    /\ UNCHANGED << timeout, clock, elapsed, batch, handled >>
    /\ WaitOnly

\* device.read(): the events that are there, or an OSError (device gone).
WaitRead ==
    /\ bpc = "read"
    /\ \/ /\ \E b \in Batches : batch' = b
          /\ bpc' = "event"
          /\ UNCHANGED << caught, ret >>
       \/ WaitRaises /\ UNCHANGED batch
    /\ UNCHANGED << timeout, clock, elapsed, handled >>
    /\ WaitOnly

\* for event in ...: return True on a press, go on otherwise; after the last
\* event back to the top of the loop.
WaitEvent ==
    /\ bpc = "event"
    /\ IF batch = << >>
       THEN bpc' = "top" /\ UNCHANGED << batch, handled, ret >>
       ELSE /\ handled' = handled \cup {Head(batch)}
            /\ IF IsPress(Head(batch))
               THEN ret' = "true" /\ bpc' = "returned" /\ UNCHANGED batch
               ELSE batch' = Tail(batch) /\ UNCHANGED << bpc, ret >>
    /\ UNCHANGED << timeout, clock, elapsed, caught >>
    /\ WaitOnly

\* A second of wall-clock time goes by while the wait is running.
SecondElapses ==
    /\ bpc \in {"top", "select", "read", "event"}
    /\ clock <= timeout
    /\ clock' = clock + 1
    /\ UNCHANGED << bpc, timeout, elapsed, batch, handled, caught, ret >>
    /\ WaitOnly

\* The statements of the waiting thread.
WaitThread == WaitOpen \/ WaitTop \/ WaitSelect \/ WaitRead \/ WaitEvent

NextWaitSteps == WaitThread \/ SecondElapses

\* ------------------------------------------------------------------------
\* Specifications
\* ------------------------------------------------------------------------

\* HintSystem: request threads, background tasks, view threads, midnight.
Init ==
    /\ InitRLStarted
    /\ InitWorkflow
    /\ ParkedViewer
    /\ ParkedHotkey
    /\ ParkedPixels
    /\ ParkedSave
    /\ ParkedFallback
    /\ ParkedWait

Next ==
    \/ \E t \in ReqThreads :
         \/ DispatchRequest(t)
         \/ ReqCheckProcessing(t)
         \/ ReqGate(t)
         \/ ReqSetProcessing(t)
         \/ ReqClearReady(t)
         \/ ReqStatus(t)
         \/ ReqNoGame(t)
         \/ ReqCapture(t)
         \/ ReqCaptureFailed(t)
         \/ ReqSpawn(t)
         \/ TaskApi(t)
         \/ TaskErrClear(t)
         \/ TaskRecord(t)
         \/ TaskRender(t)
         \/ TaskArchive(t)
         \/ TaskSetPath(t)
         \/ TaskSetReady(t)
         \/ TaskClear(t)
         \/ TaskLog(t)
         \/ TaskStats(t)
         \/ TaskExcept(t)
         \/ TaskExcClear(t)
    \/ \E v \in ViewThreads :
         \/ DispatchView(v)
         \/ ViewCheck(v)
         \/ ViewSave(v)
         \/ ViewShowBegin(v)
         \/ ViewShowEnd(v)
         \/ ViewLoad(v)
    \/ NextDay

Spec == Init /\ [][Next]_vars

\* HintViewer alone: show calls one after another on every console.
InitViewerSpec ==
    /\ InitViewer /\ ParkedRL /\ ParkedHotkey /\ InitWorkflow /\ ParkedPixels
    /\ ParkedSave /\ ParkedFallback /\ ParkedWait
SpecViewer == InitViewerSpec /\ [][NextViewerSteps]_vars

\* HotkeyListener alone: the evdev loop on every event sequence.
InitHotkeySpec ==
    /\ InitHotkey /\ ParkedRL /\ ParkedViewer /\ InitWorkflow /\ ParkedPixels
    /\ ParkedSave /\ ParkedFallback /\ ParkedWait
SpecHotkey == InitHotkeySpec /\ [][NextHotkeySteps]_vars

\* RateLimiter alone: its operations called one at a time.
InitRLSpec ==
    /\ InitRL /\ ParkedViewer /\ ParkedHotkey /\ InitWorkflow /\ ParkedPixels
    /\ ParkedSave /\ ParkedFallback /\ ParkedWait
SpecRL == InitRLSpec /\ [][NextRLSteps]_vars

\* RateLimiter alone, started on a history at or just under the cap.
InitRLCapSpec ==
    /\ InitRLCap /\ ParkedViewer /\ ParkedHotkey /\ InitWorkflow /\ ParkedPixels
    /\ ParkedSave /\ ParkedFallback /\ ParkedWait
SpecRLCap == InitRLCapSpec /\ [][NextRLSteps]_vars

\* The limiter's file after one recorded request on day 1.
OneRecorded == [date |-> 1, count |-> 1, history |-> << >>]

\* The daemon after its first request went through: the hint is rendered,
\* archived and marked ready, no view was asked for yet.
HintReadyState ==
    /\ processing = FALSE
    /\ hint_ready = TRUE
    /\ current_hint_path = 1
    /\ hint_files = [txt |-> 1, png |-> 1]
    /\ rpc = [t \in ReqThreads |-> IF t = 1 THEN "done" ELSE "idle"]
    /\ rloc = [t \in ReqThreads |->
                 IF t = 1
                 THEN [outcome |-> "spawned", task |-> TRUE, api |-> "ok",
                       fail |-> "none", cleared |-> TRUE, set_ready |-> TRUE]
                 ELSE FreshLocals]
    /\ usage_log = [t \in ReqThreads |->
                      IF t = 1 THEN {Usage("HINT_GENERATED", TRUE)} ELSE {}]
    /\ requests = 1
    /\ today = 1
    /\ daily_limit = MaxLimit
    /\ usage_data = OneRecorded
    /\ usage_file = OneRecorded
    /\ rl_last = NoCall
    /\ records_today = 0
    /\ zero_start = TRUE

\* The daemon freshly started: no hint yet.
NoHintState ==
    /\ processing = FALSE
    /\ hint_ready = FALSE
    /\ current_hint_path = 0
    /\ hint_files = [txt |-> 0, png |-> 0]
    /\ rpc = [t \in ReqThreads |-> "idle"]
    /\ rloc = [t \in ReqThreads |-> FreshLocals]
    /\ usage_log = [t \in ReqThreads |-> {}]
    /\ requests = 0
    /\ ParkedRL

\* on_view_hint alone: view combos in quick succession, with and without a
\* hint ready.
InitViewsSpec ==
    /\ HintReadyState \/ NoHintState
    /\ vwpc = [v \in PressThreads |-> "idle"]
    /\ cmd_log = [v \in PressThreads |-> << >>]
    /\ views = 0
    /\ ParkedViewer
    /\ ParkedHotkey
    /\ ParkedPixels
    /\ ParkedSave
    /\ ParkedFallback
    /\ ParkedWait

NextViewSteps ==
    \E v \in PressThreads :
        \/ DispatchView(v)
        \/ ViewCheck(v)
        \/ ViewSave(v)
        \/ ViewShowBegin(v)
        \/ ViewShowEnd(v)
        \/ ViewLoad(v)

SpecViews == InitViewsSpec /\ [][NextViewSteps]_vars

\* The limiter called from several threads, each making one call: the
\* background task's record_request and get_usage_stats, a new request's
\* can_make_request.
InitCallers ==
    /\ today = 1
    /\ daily_limit \in 0..MaxLimit
    /\ usage_data \in {[date |-> 1, count |-> c, history |-> << >>] : c \in 0..1}
    /\ usage_file = usage_data
    /\ rl_last = NoCall
    /\ records_today = 0
    /\ zero_start = (usage_data.count = 0)
    /\ ParkedCallers
InitCallersSpec ==
    /\ InitCallers
    /\ canvas = << >> /\ raw_data = << >> /\ cpc = "idle"
    /\ ParkedViewer /\ ParkedHotkey /\ InitWorkflow
    /\ ParkedSave /\ ParkedFallback /\ ParkedWait
SpecCallers == InitCallersSpec /\ [][NextCallerSteps]_vars

\* _convert_to_rgb565 alone, on every small image.
InitPixelsSpec ==
    /\ InitPixels /\ ParkedCallers
    /\ ParkedRL /\ ParkedViewer /\ ParkedHotkey /\ InitWorkflow
    /\ ParkedSave /\ ParkedFallback /\ ParkedWait
SpecPixels == InitPixelsSpec /\ [][NextPixelSteps]_vars

\* on_view_hint against the clock, for every save latency.
InitSaveSpec ==
    /\ HintReadyState \/ NoHintState
    /\ vwpc = [v \in PressThreads |-> "idle"]
    /\ cmd_log = [v \in PressThreads |-> << >>]
    /\ views = 0
    /\ ParkedViewer /\ ParkedHotkey /\ ParkedPixels
    /\ ParkedSave /\ ParkedFallback /\ ParkedWait

NextSaveSteps ==
    \/ \E v \in PressThreads :
         \/ DispatchView(v)
         \/ ViewCheck(v)
         \/ SaveStateSent(v)
         \/ SleepReturns(v)
         \/ ViewShowBegin(v)
         \/ ViewShowEnd(v)
         \/ ViewLoad(v)
    \/ SecondPasses

SpecSave == InitSaveSpec /\ [][NextSaveSteps]_vars

\* The polling listener alone, with sentinel files appearing at any time.
InitFallbackSpec ==
    /\ InitFallback
    /\ ParkedRL /\ ParkedViewer /\ ParkedHotkey /\ InitWorkflow
    /\ ParkedPixels /\ ParkedSave /\ ParkedWait

SpecFallback == InitFallbackSpec /\ [][NextFallbackSteps]_vars

\* One button wait: the thread keeps running and time keeps passing.
InitWaitSpec ==
    /\ InitWait
    /\ ParkedRL /\ ParkedViewer /\ ParkedHotkey /\ InitWorkflow
    /\ ParkedPixels /\ ParkedSave /\ ParkedFallback

SpecWait ==
    /\ InitWaitSpec /\ [][NextWaitSteps]_vars
    /\ WF_vars(WaitThread) /\ WF_vars(SecondElapses)

\* record_request called again and again while saves may fail.
InitPersistSpec ==
    /\ InitRLStarted
    /\ ParkedViewer /\ ParkedHotkey /\ InitWorkflow
    /\ ParkedPixels /\ ParkedSave /\ ParkedFallback /\ ParkedWait

SpecPersist == InitPersistSpec /\ [][NextPersistSteps]_vars

\* Fair scheduling of the background tasks: a started thread keeps running.
TaskNext(t) ==
    \/ TaskApi(t) \/ TaskErrClear(t) \/ TaskRecord(t) \/ TaskRender(t)
    \/ TaskArchive(t) \/ TaskSetPath(t) \/ TaskSetReady(t) \/ TaskClear(t)
    \/ TaskLog(t) \/ TaskStats(t) \/ TaskExcept(t) \/ TaskExcClear(t)

SpecFair == Spec /\ \A t \in ReqThreads : WF_vars(TaskNext(t))

\* ------------------------------------------------------------------------
\* Claims
\* ------------------------------------------------------------------------

\* C1: in _show_direct_fb, when a step after the stop signal fails
\* (unsupported depth, image preparation, framebuffer write), the recorded
\* virtual terminal is restored and the resume signal is sent exactly once
\* before the technique delegates to the fallback technique.
C1_RollbackBeforeFallback ==
    (display_method = "direct_fb" /\ vpc = "pause"
        /\ fell_back_from \in {"depth", "prep", "write"})
    => /\ stops_sent = 1 => conts_sent = 1
       /\ current_vt # 0 => active_vt = current_vt

\* C2: for every technique and outcome, when show returns every stop signal
\* of the call has been followed by a resume signal and the active virtual
\* terminal is the recorded one, whenever one was recorded.
C2_ShowLeavesEmulatorRunning ==
    vpc = "returned"
    => /\ stops_sent > 0 => (~emu_stopped /\ conts_sent > 0)
       /\ current_vt # 0 => active_vt = current_vt

\* C3: at most one background hint task is active at any time.
ActiveTasks == {t \in ReqThreads : rpc[t] \in TaskPcs}
C3_AtMostOneTask == Cardinality(ActiveTasks) <= 1

\* C4: an on_request_hint call that finds processing true returns at once:
\* it spawns no background task and leaves the limiter's data, in memory and
\* on disk, as it was.
C4_BusyRejectLeavesLimiter ==
    [][\A t \in ReqThreads :
         (rpc[t] = "r_check" /\ processing /\ rpc'[t] # rpc[t])
         => /\ rpc'[t] = "done"
            /\ ~rloc'[t].task
            /\ usage_data' = usage_data
            /\ usage_file' = usage_file]_vars

\* C4 witness: a request was rejected as busy on a day the limiter had not
\* rolled over to yet.
C4_Witness ==
    \E t \in ReqThreads :
        rloc[t].outcome = "busy" /\ usage_data.date # today /\ daily_limit > 0

\* C5: every background task ends having cleared processing, whatever failed
\* inside it; a task in which something raised has logged a usage record
\* with success=false; and once no handler or task is running (and none was
\* ended by an exception of the handler) processing is false.
TaskEnded(t) == rloc[t].task /\ rpc[t] = "done"
C5_Safe ==
    /\ \A t \in ReqThreads :
         TaskEnded(t)
         => /\ rloc[t].cleared
            /\ rloc[t].fail # "none"
                 => Usage("PROCESSING_ERROR", FALSE) \in usage_log[t]
    /\ (\A t \in ReqThreads : rpc[t] \in {"idle", "done"}) => ~processing
C5_TaskAlwaysClears ==
    /\ []C5_Safe
    /\ \A t \in ReqThreads : (rpc[t] \in TaskPcs) ~> TaskEnded(t)

\* C5 witness: a task in which render raised has ended.
C5_Witness ==
    \E t \in ReqThreads : TaskEnded(t) /\ rloc[t].fail = "render"

ViewCommands == << "save", "show", "load" >>
IsPrefix(s, full) == Len(s) <= Len(full) /\ s = SubSeq(full, 1, Len(s))

\* C6: a request whose hint source call succeeds and whose render and
\* archive complete without raising sets hint_ready to true; an on_view_hint
\* that finds the hint ready issues save-state, then show, then load-state,
\* in that order and each once, and load-state follows show whatever show
\* returned.
C6_Ready ==
    /\ \A t \in ReqThreads :
         (TaskEnded(t) /\ rloc[t].api = "ok" /\ rloc[t].fail = "none")
         => rloc[t].set_ready
    /\ \A v \in ViewThreads :
         /\ IsPrefix(cmd_log[v], ViewCommands)
         /\ vwpc[v] = "done" => cmd_log[v] \in {<< >>, ViewCommands}
         /\ vwpc[v] \in {"v_in_show", "v_load"} => cmd_log[v] # << >>
C6_Step ==
    /\ \A t \in ReqThreads :
         (rpc[t] = "t_set_ready" /\ rpc'[t] # rpc[t]) => hint_ready'
    /\ \A v \in ViewThreads :
         (vwpc[v] = "v_check" /\ vwpc'[v] # vwpc[v])
         => (vwpc'[v] = "v_save") = (hint_ready /\ current_hint_path # 0)
C7_Original ==
    hpc = "read"
    => \A a \in Actions : times_held[a] = 1 => dispatched[a] = 1

OtherAction(a) == IF a = "request" THEN "view" ELSE "request"

\* C7: a combo that became simultaneously held exactly once, in a sequence
\* of events in which the other combo never matched, has been dispatched
\* exactly once, also when buttons outside both combos are pressed and
\* released in between; and no combo is dispatched more often than it was
\* held.
C7_HeldOnceDispatchedOnce ==
    /\ hpc = "read"
       => \A a \in Actions :
            (times_held[a] = 1 /\ dispatched[OtherAction(a)] = 0)
            => dispatched[a] = 1
    /\ \A a \in Actions : dispatched[a] <= times_held[a]

\* C7 witness: with the default combos the view combo was held once while a
\* button outside both combos is down, and the view action went out once.
C7_Witness ==
    /\ request_combo = {"BTN_SELECT", "BTN_TL"}
    /\ view_combo = {"BTN_SELECT", "BTN_TR"}
    /\ hpc = "read"
    /\ times_held["view"] = 1 /\ dispatched["view"] = 1
    /\ dispatched["request"] = 0
    /\ "BTN_A" \in held

\* C8: when a combo has matched and its action is about to be dispatched the
\* pressed set is already empty, and every button of the combo was pressed
\* since the action's previous dispatch, so release and repeat events of a
\* continuing hold dispatch nothing.
C8_ClearedBeforeDispatch ==
    hpc \in Actions
    => /\ pressed_keys = {}
       /\ Combo(hpc) \subseteq pressed_since[hpc]

\* C8 witness: the request combo matches a second time.
C8_Witness == hpc = "request" /\ dispatched["request"] = 1

\* C9: with a limit L > 0, can_make_request returns allowed exactly when
\* used < limit; on a day that started with count 0, used is the number of
\* record_request calls of the day, so after L of them it returns
\* allowed=false with used=L and after fewer it returns allowed=true.
C9_AllowedIffUnderLimit ==
    (rl_last.op = "can" /\ daily_limit > 0)
    => /\ rl_last.result.allowed = (rl_last.result.used < rl_last.result.limit)
       /\ rl_last.result.limit = daily_limit
       /\ rl_last.zero
            => /\ rl_last.result.used = rl_last.records
               /\ rl_last.records = daily_limit => ~rl_last.result.allowed
               /\ rl_last.records < daily_limit => rl_last.result.allowed

\* C9 witness: the gate refuses after exactly L record_request calls on a day
\* that started at 0.
C9_Witness ==
    /\ rl_last.op = "can" /\ daily_limit = MaxLimit
    /\ rl_last.zero /\ rl_last.records = daily_limit
    /\ ~rl_last.result.allowed

\* The entry a rollover saves for the day it closes.
PriorDay(ud) == [date |-> ud.date, count |-> ud.count]

\* C10 as stated: a rollover from a stored day appends that day's entry to
\* the history for every prior count, 0 included.
C10_Original ==
    (rl_last.op # "none" /\ rl_last.rolled /\ rl_last.before.date # 0)
    => usage_data.history
         = Append(rl_last.before.history, PriorDay(rl_last.before))

\* C10: an operation that runs on a day different from the stored date sets
\* the date to today and the count to 0 (record_request then counts its
\* request), and persists the result; it appends the prior day's entry to the
\* history only when a date was stored and the prior count is greater than 0,
\* and otherwise leaves the history as it was.
C10_RolloverKeepsNonzeroDays ==
    (rl_last.op # "none" /\ rl_last.rolled)
    => /\ usage_data.date = rl_last.day
       /\ usage_data.count = (IF rl_last.op = "record" THEN 1 ELSE 0)
       /\ usage_data.history =
            IF rl_last.before.date # 0 /\ rl_last.before.count > 0
            THEN Append(rl_last.before.history, PriorDay(rl_last.before))
            ELSE rl_last.before.history
       /\ usage_file = usage_data

\* C10 witness: a day with a positive count was rolled over into the history.
C10_Witness ==
    /\ rl_last.op # "none" /\ rl_last.rolled
    /\ rl_last.before.count > 0
    /\ Len(usage_data.history) = 1

\* The history's dates grow from the oldest entry to the newest.
InAppendOrder(h) ==
    \A i \in 1..Len(h), j \in 1..Len(h) : i < j => h[i].date < h[j].date

\* C11: the history never holds more than 30 entries and keeps them in the
\* order they were appended; a rollover that appends to a history of 30
\* entries drops exactly the oldest one.
C11_HistoryCapped ==
    /\ Len(usage_data.history) <= HistoryCap
    /\ InAppendOrder(usage_data.history)
    /\ (rl_last.op # "none" /\ rl_last.rolled
          /\ rl_last.before.date # 0 /\ rl_last.before.count > 0)
       => /\ usage_data.history[Len(usage_data.history)]
                = PriorDay(rl_last.before)
          /\ Len(rl_last.before.history) = HistoryCap
               => usage_data.history
                    = Append(Tail(rl_last.before.history),
                             PriorDay(rl_last.before))
          /\ Len(rl_last.before.history) < HistoryCap
               => usage_data.history
                    = Append(rl_last.before.history,
                             PriorDay(rl_last.before))

\* C11 witness: a rollover appended to a full history.
C11_Witness ==
    /\ rl_last.op # "none" /\ rl_last.rolled
    /\ rl_last.before.count > 0
    /\ Len(rl_last.before.history) = HistoryCap
    /\ Len(usage_data.history) = HistoryCap

\* C12: with a limit of 0 or less can_make_request returns allowed=true,
\* used=0, limit=0 whatever date and count are stored.
C12_NoLimitAlwaysAllowed ==
    (rl_last.op = "can" /\ daily_limit <= 0)
    => rl_last.result = [allowed |-> TRUE, used |-> 0, limit |-> 0]

\* C12 witness: the gate was asked with a negative limit after as many
\* requests as the day can hold were recorded.
C12_Witness ==
    /\ rl_last.op = "can" /\ daily_limit < 0
    /\ rl_last.before.count = MaxCount
    /\ rl_last.before.date = rl_last.day

\* The on_view_hint threads that are inside HintViewer.show.
InShow == {v \in DOMAIN vwpc : vwpc[v] = "v_in_show"}

\* C13: HintViewer.show is never executing in two threads at once.
C13_OneShowAtATime == Cardinality(InShow) <= 1

\* on_view_hint has passed its ready check and has not yet sent load-state.
ViewInProgress(v) == vwpc[v] \in {"v_save", "v_show", "v_in_show", "v_load"}

\* C14: while a view is in progress no step overwrites the current-hint
\* files or changes hint_ready or current_hint_path.
C14_ViewedHintUntouched ==
    [][(\E v \in ViewThreads : ViewInProgress(v))
       => /\ hint_files' = hint_files
          /\ hint_ready' = hint_ready
          /\ current_hint_path' = current_hint_path]_vars

\* The 16-bit word the output holds for pixel i.
WordAt(i) == raw_data[2 * i - 1] + 256 * raw_data[2 * i]

\* C15: _convert_to_rgb565 emits, for each pixel in order, the word
\* (r>>3)<<11 | (g>>2)<<5 | (b>>3) as two bytes, low byte first; the three
\* fields do not overlap (the word is their sum) and it is below 2^16; the
\* pixels (255,0,0),(0,255,0) give the bytes 00 F8 E0 07.
C15_Rgb565LittleEndian ==
    cpc = "returned"
    => /\ Len(raw_data) = 2 * Len(canvas)
       /\ \A k \in 1..Len(raw_data) : raw_data[k] \in 0..255
       /\ \A i \in 1..Len(canvas) :
            /\ WordAt(i) = (canvas[i][1] \div 8) * 2048
                           + (canvas[i][2] \div 4) * 32
                           + (canvas[i][3] \div 8)
            /\ WordAt(i) < 65536
            /\ raw_data[2 * i - 1] = ((canvas[i][2] \div 4) % 8) * 32
                                     + (canvas[i][3] \div 8)
       /\ canvas = << << 255, 0, 0 >>, << 0, 255, 0 >> >>
            => raw_data = << 0, 248, 224, 7 >>

\* C15 witness: the two-pixel image red, green was converted.
C15_Witness ==
    /\ cpc = "returned"
    /\ canvas = << << 255, 0, 0 >>, << 0, 255, 0 >> >>
    /\ Len(raw_data) = 4

\* The techniques in the order of preference, and what each one needs.
TechniqueOrder ==
    << "direct_fb", "mpv", "fbv", "fbi", "feh", "retroarch_pause" >>
Available(m) ==
    CASE m = "direct_fb" -> PIL_AVAILABLE /\ fb_sysfs
      [] m = "retroarch_pause" -> TRUE
      [] OTHER -> m \in installed

\* C16: the technique selected at construction is the first one, in the
\* order direct framebuffer, mpv, fbv, fbi, feh, paused overlay text, whose
\* precondition holds; the paused overlay text is selected exactly when none
\* of the others is available.
C16_FirstAvailableTechnique ==
    /\ \E i \in 1..Len(TechniqueOrder) :
         /\ display_method = TechniqueOrder[i]
         /\ Available(TechniqueOrder[i])
         /\ \A j \in 1..(i - 1) : ~Available(TechniqueOrder[j])
    /\ display_method = "retroarch_pause"
         <=> \A j \in 1..(Len(TechniqueOrder) - 1) :
                ~Available(TechniqueOrder[j])

\* C16 witness: without the framebuffer files and without mpv, fbv is taken
\* although fbi and feh are there too.
C16_Witness ==
    /\ display_method = "fbv"
    /\ PIL_AVAILABLE /\ ~fb_sysfs
    /\ {"fbi", "feh"} \subseteq installed

\* The user ended the display: a button press seen by the wait, or the
\* viewer program exiting on a key.
Dismissed == wait_result \in {"press", "exited"}

\* C17: HintViewer.show returns true exactly when the user dismissed the
\* hint, and false when the wait timed out or the technique failed.
C17_TrueIffDismissed ==
    vpc = "returned" => (show_result = "true" <=> Dismissed)

\* C18: rollover check and what follows are serialized per call, so that one
\* day change appends at most one history entry: no two entries of the
\* history are for the same day.
C18_OneEntryPerDay ==
    \A i \in 1..Len(usage_data.history), j \in 1..Len(usage_data.history) :
        i # j => usage_data.history[i].date # usage_data.history[j].date

\* C19: an on_view_hint that finds hint_ready false, or no artifact path,
\* returns at once: it sends no save-state, calls no show, sends no
\* load-state, and leaves hint_ready, current_hint_path and processing as
\* they were; a returned handler sends nothing afterwards.
C19_NotReadyViewRejected ==
    [][\A v \in ViewThreads :
         /\ (vwpc[v] = "v_check" /\ (~hint_ready \/ current_hint_path = 0)
               /\ vwpc'[v] # vwpc[v])
            => /\ vwpc'[v] = "done"
               /\ cmd_log'[v] = << >>
               /\ hint_ready' = hint_ready
               /\ current_hint_path' = current_hint_path
               /\ processing' = processing
         /\ vwpc[v] = "done" => (vwpc'[v] = "done" /\ cmd_log'[v] = cmd_log[v])
      ]_vars

\* C19 witness: a view was turned away while a request was being processed
\* that had taken the earlier hint's readiness away.
C19_Witness ==
    \E v \in ViewThreads :
        /\ vwpc[v] = "done" /\ cmd_log[v] = << >>
        /\ ~hint_ready /\ current_hint_path # 0

\* C20: a task whose hint source returned an error-shaped response logs a
\* usage record with success=false, clears processing and ends; it never
\* marks the hint ready and its steps leave the quota count, in memory and
\* on disk, and hint_ready as they were.
C20_Ended ==
    \A t \in ReqThreads :
        rloc[t].api = "error"
        => /\ rpc[t] \in {"t_err_clear", "done"}
           /\ Usage("API_ERROR", FALSE) \in usage_log[t]
           /\ ~rloc[t].set_ready
           /\ rpc[t] = "done" => rloc[t].cleared
           /\ requests = 1 => ~hint_ready
C20_Step ==
    \A t \in ReqThreads :
        ((rpc[t] = "t_api" /\ rpc'[t] = "t_err_clear") \/
         (rpc[t] = "t_err_clear" /\ rpc'[t] # rpc[t]))
        => /\ usage_data' = usage_data
           /\ usage_file' = usage_file
           /\ hint_ready' = hint_ready
           /\ rpc[t] = "t_err_clear" => (~processing' /\ rpc'[t] = "done")
C20_ErrorResponseNotCounted == []C20_Ended /\ [][C20_Step]_vars

\* C20 witness: a task ended on an error-shaped response.
C20_Witness ==
    \E t \in ReqThreads :
        TaskEnded(t) /\ rloc[t].api = "error" /\ ~processing

\* The requests whose hint source call returned a hint and whose
\* record_request has run.
Recorded == {t \in ReqThreads : rloc[t].api = "ok" /\ rpc[t] # "t_record"}

\* The count after a rollover check on the current day.
CountToday == IF usage_data.date = today THEN usage_data.count ELSE 0

\* C21: the quota count goes up by one exactly in the step in which a task
\* whose hint source call returned a non-error response records it, and a
\* task gets to that step exactly when its call returned a non-error
\* response; no other step (a rejection, a failed capture, an error-shaped
\* or raising call, a later failure) raises the count.
C21_Counted ==
    /\ \A t \in ReqThreads :
         /\ rloc[t].api \in {"error", "raise"} => t \notin Recorded
         /\ rloc[t].outcome \in {"busy", "limited", "nogame", "capfail", "raised"}
              => rloc[t].api = "none"
         /\ rpc[t] = "t_record" => rloc[t].api = "ok"
    /\ today = 1 => usage_data.count - Cardinality(Recorded) \in 0..1
C21_Step ==
    /\ \A t \in ReqThreads :
         /\ (rpc[t] = "t_api" /\ rpc'[t] # rpc[t])
            => (rpc'[t] = "t_record" <=> rloc'[t].api = "ok")
         /\ (rpc'[t] = "t_record" /\ rpc[t] # "t_record") => rpc[t] = "t_api"
         /\ (rpc[t] = "t_record" /\ rpc'[t] # rpc[t])
            => /\ usage_data'.count = CountToday + 1
               /\ usage_file'.count = CountToday + 1
    /\ (\A t \in ReqThreads : ~(rpc[t] = "t_record" /\ rpc'[t] # rpc[t]))
       => usage_data'.count \in {usage_data.count, CountToday}
ViewsCompleted == {v \in DOMAIN vwpc : vwpc[v] = "done" /\ cmd_log[v] = ViewCommands}

\* C22: once a view has completed, and no request was made since, hint_ready
\* is false and an on_view_hint that makes its check then is rejected.
C22_ViewReturnsToIdle ==
    /\ [](ViewsCompleted # {} => ~hint_ready)
    /\ [][\A w \in DOMAIN vwpc :
            (ViewsCompleted # {} /\ vwpc[w] = "v_check" /\ vwpc'[w] # vwpc[w])
            => vwpc'[w] = "done"]_vars

\* Thread t's on_request_hint returns in this step, turned away by the quota
\* gate or by the "No game running" test.
RejectedNow(t) ==
    /\ rpc[t] \in {"r_gate", "r_nogame"}
    /\ rpc'[t] = "done"

\* C23: an on_request_hint rejected by the quota gate or because no game is
\* running has spawned no task and made no hint source call, leaves the
\* day's quota count as it was, ends with processing false, and does
\* nothing after it returned.
C23_RejectedEndsIdle ==
    [][\A t \in ReqThreads :
         /\ RejectedNow(t)
            => /\ ~rloc'[t].task
               /\ rloc'[t].api = "none"
               /\ usage_data'.count = usage_data.count
               /\ ~processing'
         /\ rpc[t] = "done" => rpc'[t] = "done"]_vars

\* Thread t's task leaves position pc in this step.
Leaves(t, pc) == rpc[t] = pc /\ rpc'[t] # pc

\* The success path of the task, step by step: what each step does and which
\* step comes next.
C24_Step ==
    \A t \in ReqThreads :
        /\ Leaves(t, "t_record")
           => /\ rpc'[t] = "t_render"
              /\ usage_data'.count = CountToday + 1
        /\ Leaves(t, "t_render")
           => /\ rpc'[t] \in {"t_archive", "t_except"}
              /\ rpc'[t] = "t_archive" => hint_files' = [txt |-> t, png |-> t]
              /\ t \in Recorded
        /\ Leaves(t, "t_archive") => rpc'[t] \in {"t_set_path", "t_except"}
        /\ Leaves(t, "t_set_path")
           => /\ rpc'[t] = "t_set_ready"
              /\ current_hint_path' # 0
        /\ Leaves(t, "t_set_ready")
           => /\ rpc'[t] = "t_clear"
              /\ hint_ready'
              /\ current_hint_path # 0 /\ hint_files.png # 0
              /\ processing' = processing
        /\ Leaves(t, "t_clear")
           => /\ rpc'[t] = "t_log"
              /\ ~processing'
              /\ rloc[t].set_ready
        /\ Leaves(t, "t_log")
           => /\ Usage("HINT_GENERATED", TRUE) \in usage_log'[t]
              /\ rloc[t].set_ready /\ rloc[t].cleared
        /\ (~hint_ready /\ hint_ready') => \E u \in ReqThreads : Leaves(u, "t_set_ready")

\* hint_ready is true only with an artifact rendered and its path set.
C24_ReadyHasArtifact ==
    hint_ready => (current_hint_path # 0 /\ hint_files.png # 0)

\* C24 as stated: in addition, the task sends the ready notification only
\* while hint_ready is true.
C24_Original ==
    /\ []C24_ReadyHasArtifact
    /\ [][C24_Step /\ \A t \in ReqThreads : Leaves(t, "t_log") => hint_ready]_vars

\* C24: on a successful response the task records the quota usage, renders,
\* archives, sets current_hint_path, sets hint_ready, clears processing and
\* then logs and sends the ready notification, in this order; hint_ready is
\* true only with an artifact rendered and its path set; and the task that
\* sends the ready notification has set hint_ready before (a request
\* accepted since may have cleared it again).
C24_SuccessOrder == []C24_ReadyHasArtifact /\ [][C24_Step]_vars

\* C24 witness: a task went through the whole success path and its hint is
\* the ready one.
C24_Witness ==
    \E t \in ReqThreads :
        /\ Usage("HINT_GENERATED", TRUE) \in usage_log[t]
        /\ rloc[t].set_ready /\ rloc[t].cleared
        /\ hint_ready /\ hint_files = [txt |-> t, png |-> t]

\* C25: on_view_hint calls HintViewer.show only when the save state it asked
\* for has been written completely, whatever time the emulator needs for it.
C25_ShowAfterSaveCompleted ==
    [][\A v \in PressThreads :
         (vwpc[v] = "v_show" /\ vwpc'[v] = "v_in_show") => save_left[v] = 0]_vars

\* C26: the thread that reads the input (the evdev events, or the sentinel
\* files in the polling mode) is never itself inside on_request_hint or
\* on_view_hint, so it goes on reading while an action runs.
C26_ActionsOffListener == fpc.at # "in_call"

\* The pressed set _check_combos evaluates in this step: the set before the
\* event and the button that went down.
Evaluated == pressed_keys \cup (held' \ held)

\* Threads started so far, both actions together.
Dispatches == dispatched["request"] + dispatched["view"]

\* C27: when the pressed set satisfies both combos at once only the request
\* action is dispatched; an evaluation that matches picks one action whose
\* combo the pressed set satisfies, clears the pressed set, and starts one
\* thread, for that action.
C27_RequestBeforeView ==
    [][/\ hpc = "read"
          => /\ (request_combo \subseteq Evaluated /\ view_combo \subseteq Evaluated)
                => hpc' = "request"
             /\ hpc' \in Actions
                => (Combo(hpc') \subseteq Evaluated /\ pressed_keys' = {})
             /\ dispatched' = dispatched
       /\ hpc \in Actions
          => /\ hpc' = "read"
             /\ dispatched'[hpc] = dispatched[hpc] + 1
             /\ Dispatches' = Dispatches + 1]_vars

\* C27 witness: with a view combo contained in the request combo, both
\* combos are held, nothing was dispatched before, and the request action is
\* about to be dispatched.
C27_Witness ==
    /\ hpc = "request"
    /\ request_combo \subseteq held /\ view_combo \subseteq held
    /\ Dispatches = 0

\* The depths _show_direct_fb can encode for.
SupportedBpp == {16, 24, 32}

\* C28: in _show_direct_fb a depth other than 16, 24 or 32 makes the
\* technique fall back as soon as it was read: no stop signal has been sent
\* and the virtual terminal has not been switched.
C28_DepthRejectedAtRead ==
    /\ (display_method = "direct_fb" /\ fb_bpp # 0 /\ fb_bpp \notin SupportedBpp)
       => vpc \in {"pause", "returned"}
    /\ fell_back_from = "depth" => (stops_sent = 0 /\ display_vt = 0)

\* C29: _show_direct_fb goes on to step 4 only with the emulator stopped and
\* to step 5 only with the virtual terminal switched (a failed step 3 or 4
\* falls back instead), so the framebuffer is written only while the
\* emulator is suspended and the display terminal is the active one.
C29_WriteOnlyWhenSuspended ==
    /\ vpc \in {"dfb_chvt", "dfb_prep", "dfb_write", "dfb_wait"} => emu_stopped
    /\ vpc \in {"dfb_prep", "dfb_write", "dfb_wait"} => active_vt = display_vt
    /\ (vpc = "dfb_wait" /\ fb_written)
       => (emu_stopped /\ retroarch_suspended /\ active_vt = display_vt)

\* Steps 8 and 9 of _show_direct_fb, after the wait: the switch back, then
\* the resume.
C30_Waited ==
    /\ vpc \in {"dfb_back", "dfb_resume"}
       => (fb_written /\ wait_result # "none" /\ conts_sent = 0)
    /\ (vpc = "dfb_resume" /\ current_vt # 0 /\ "chvt" \in installed)
       => active_vt = current_vt
C30_Step ==
    /\ (vpc = "dfb_wait" /\ vpc' # vpc) => vpc' = "dfb_back"
    /\ (vpc = "dfb_back" /\ vpc' # vpc)
       => /\ vpc' = "dfb_resume"
          /\ current_vt = 0 => active_vt' = active_vt
          /\ emu_stopped' = emu_stopped
    /\ (vpc = "dfb_resume" /\ vpc' # vpc)
       => /\ vpc' = "returned"
          /\ conts_sent' = stops_sent
          /\ ~emu_stopped'
          /\ active_vt' = active_vt

C31_EveryShowPresents ==
    vpc = "returned" => show_result = "true"

\* Every sentinel file created so far still exists, or was deleted and its
\* callback is the next statement, or was answered by one callback.
C32_Accounted ==
    touches = invoked["request"] + invoked["view"] + Cardinality(triggers)
              + (IF fpc.at = "call" THEN 1 ELSE 0)
C32_Step ==
    /\ \A a \in Actions :
         /\ (fpc' = At("call", a) /\ fpc' # fpc)
            => (fpc = At("unlink", a) /\ a \in triggers /\ a \notin triggers')
         /\ (fpc = At("unlink", a) /\ fpc' # fpc /\ fpc' # At("call", a))
            => (fpc'.at = "err_sleep" /\ invoked' = invoked
                /\ triggers' = triggers)
    /\ invoked' # invoked
       => \E a \in Actions : /\ fpc = At("call", a)
                             /\ invoked' = [invoked EXCEPT ![a] = @ + 1]
    /\ (fpc' = At("test", "view") /\ fpc' # fpc)
       => \/ fpc = At("test", "request") /\ "request" \notin triggers
          \/ fpc = At("in_call", "request")
    /\ (fpc' = At("unlink", "view") /\ fpc' # fpc) => fpc = At("test", "view")

\* C32: in the polling loop a callback is invoked only directly after its
\* sentinel file was deleted, once per deletion, and never after an unlink
\* that failed, so every file created is answered by at most one callback
\* and by exactly one once it is gone; within one pass of the loop the view
\* file is only looked at after the request block is over, so with both
\* files present on_request is invoked before on_view.
C32_OnceAfterDelete == []C32_Accounted /\ [][C32_Step]_vars

\* C32 witness: two sentinel files were created, both are gone, on_request
\* has been invoked once and on_view is being invoked for the first time.
C32_Witness ==
    /\ fpc = At("in_call", "view")
    /\ invoked = [a \in Actions |-> 1]
    /\ touches = 2 /\ triggers = {}

\* What has been returned, against what was read and how long it took.
C33_Outcome ==
    /\ ret = "true" <=> Ev("EV_KEY", 1) \in handled
    /\ (ret = "false" /\ ~caught) => elapsed >= timeout
    /\ bpc = "returned" <=> ret # "none"
C33_Step ==
    (bpc = "event" /\ batch # << >> /\ Head(batch) # Ev("EV_KEY", 1)
     /\ handled' # handled)
    => (ret' = "none" /\ bpc' = "event")

\* C33: _wait_for_button_press always returns; it returns True exactly when
\* the for loop comes to a key event of value 1, looking past releases,
\* repeats and events of other types, and it returns False without having
\* seen a press only when the timeout has elapsed or an exception was caught.
C33_WaitTerminates ==
    /\ <>(bpc = "returned")
    /\ []C33_Outcome
    /\ [][C33_Step]_vars

\* C33 witness: after more than a second of waiting a release was read and
\* ignored, then a press ended the wait with True.
C33_Witness ==
    /\ bpc = "returned" /\ ret = "true"
    /\ Ev("EV_KEY", 0) \in handled
    /\ elapsed >= 1

\* What a restart on this day would find in the file, and what is in memory.
PersistedToday == IF usage_file.date = today THEN usage_file.count ELSE 0
MemoryToday == IF usage_data.date = today THEN usage_data.count ELSE 0

\* C34: whenever the process could crash, the count persisted for the
\* current day is at least the in-memory count minus one, and (on a day that
\* started at zero) at most the number of increments record_request made
\* that day, also after a _save has failed.
C34_CrashLosesAtMostOne ==
    /\ PersistedToday >= MemoryToday - 1
    /\ zero_start => PersistedToday <= records_today

\* C35: no step of any show call assigns display_method, a call that fell
\* back to the paused overlay text included, and every call goes straight to
\* the entry point of the technique chosen at construction, without probing
\* again.
C35_TechniqueFixed ==
    [][/\ display_method' = display_method
       /\ (vpc \in {"idle", "returned"} /\ vpc' # vpc)
          => vpc' = ShowEntry(display_method)]_vars

\* C35 witness: a second show call has been made after calls that used the
\* direct framebuffer technique, and this one fell back to the overlay text
\* and returned; direct_fb is still selected.
C35_Witness ==
    /\ shows = 2 /\ vpc = "returned"
    /\ fell_back_from # "none"
    /\ display_method = "direct_fb"

\* C36: with a daily limit L > 0 the count of the current day, and the count
\* of every day in the history, never exceeds L, whatever the interleaving
\* of request threads and background tasks.
C36_CountWithinLimit ==
    daily_limit > 0
    => /\ usage_data.count <= daily_limit
       /\ \A i \in 1..Len(usage_data.history) :
            usage_data.history[i].count <= daily_limit

\* Request t was turned away with one of these outcomes after request u had
\* made a hint ready, and no third request ran.
TurnedAwayAfterReady(t, u, outcomes) ==
    /\ t # u
    /\ rpc[u] = "done" /\ rloc[u].set_ready
    /\ rpc[t] = "done" /\ rloc[t].outcome \in outcomes
    /\ \A w \in ReqThreads \ {t, u} : rpc[w] = "idle"

C37_Step ==
    \A t \in ReqThreads :
       (rpc[t] \in HandlerPcs /\ rpc'[t] # rpc[t])
       => /\ current_hint_path' = current_hint_path
          /\ IF rpc[t] = "r_clear_ready" THEN ~hint_ready'
             ELSE hint_ready' = hint_ready
C37_EarlyKept ==
    \A t, u \in ReqThreads :
       TurnedAwayAfterReady(t, u, {"busy", "limited"})
       => (hint_ready /\ current_hint_path # 0)

C38_ProcessingOnlyWhileRunning ==
    processing => \E t \in ReqThreads : rpc[t] \in HandlerPcs \cup TaskPcs

\* The pressed set between two events.
C39_PressedSet ==
    /\ pressed_keys \subseteq request_combo \cup view_combo
    /\ ~(request_combo \subseteq pressed_keys)
    /\ ~(view_combo \subseteq pressed_keys)
C39_Step ==
    (hpc = "read" /\ hpc' \in Actions)
    => \E b \in Buttons : b \notin held /\ held' = held \cup {b}

\* C39: with non-empty combos the pressed set, once an event has been
\* processed, holds only buttons of the two combos and contains neither
\* combo entirely; and the listener goes on to start a thread only from an
\* event in which a button went down, never from a release or a repeat.
C39_NoComboLeftPressed == []C39_PressedSet /\ [][C39_Step]_vars

\* C39 witness: the request combo was dispatched and is still held, and a
\* further button pressed since is in the pressed set, which the clearing
\* left without the combo.
C39_Witness ==
    /\ hpc = "read"
    /\ dispatched["request"] = 1
    /\ request_combo \subseteq held
    /\ pressed_keys # {}

\* C40: in the direct-framebuffer technique the steps that restore the
\* display (the switch back, the resume) run on a written image only after
\* the wait has seen a button press or has lasted its full 300 seconds.
C40_RestoreOnlyAfterPressOrCeiling ==
    (vpc \in {"dfb_back", "dfb_resume"} /\ fb_written)
    => wait_result \in {"press", "timeout"}

====
